---- MODULE Spec2Model ----
(***************************************************************************)
(* A model of the NYS_OS AI engine core: the BPE tokenizer                 *)
(* (src/training/tokenizer.py), the text generator's three decoding        *)
(* strategies (src/inference/generator.py), the causal mask as the         *)
(* attention layer applies it (src/model/attention.py), the conversation   *)
(* context manager (src/inference/context_manager.py) and the inference    *)
(* engine's generate call (src/inference/inference_engine.py), the         *)
(* construction, saving and loading of the transformer model               *)
(* (src/model/model.py) with its mask function, the training loop and its  *)
(* checkpoints (src/training/trainer.py), the start-up of the server       *)
(* (src/api/server.py), the scheduler (src/assistant/scheduler.py) and the *)
(* system command executor (src/assistant/system_commands.py).             *)
(*                                                                         *)
(* Strings are sequences of one-character strings, so that splitting,      *)
(* lower-casing, joining and replacing are computed and not assumed.       *)
(***************************************************************************)
EXTENDS Integers, Sequences, FiniteSets, TLC

VARIABLES
    \* ---- BPETokenizer object (tokenizer.py:20-27)
    vocab_size, special_tokens, word_freqs, splits, merges, vocab, inverse_vocab,
    \* ---- the last tokenizer call and what it returned
    tok_op,
    \* ---- TextGenerator / InferenceEngine request (generator.py, inference_engine.py)
    req, pc, tgt, beams, finished, steps, result, oracle,
    encoder_runs, decoder_runs,
    \* ---- ContextManager (context_manager.py:17-21)
    max_context_length, conversation_history, ctx_op,
    \* ---- the mask of the current decoder call (generator.py:170-173)
    mask_size, mask,
    \* ---- the tokenizer file and the model checkpoint file (tokenizer.py:181-208,
    \* model.py:129-163), the TransformerModel object and the last model call
    tok_file, checkpoint, model, model_op,
    \* ---- the global of the server (server.py:19)
    inference_engine,
    \* ---- the calls running concurrently on one TextGenerator, and its max_len
    threads, gen_max_len,
    \* ---- the last generate_mask call (model.py:68-99)
    gm_op,
    \* ---- Scheduler (scheduler.py:16-26), its calendar.json and its last call
    events, calendar_file, sched_op,
    \* ---- the last SystemCommandExecutor.execute call (system_commands.py:64-104)
    cmd_op,
    \* ---- the Trainer of the model (trainer.py:40-71)
    trainer

tokVars == <<vocab_size, special_tokens, word_freqs, splits, merges, vocab,
             inverse_vocab, tok_op>>
genVars == <<req, pc, tgt, beams, finished, steps, result, oracle,
             encoder_runs, decoder_runs>>
ctxVars == <<max_context_length, conversation_history, ctx_op>>
maskVars == <<mask_size, mask>>
storeVars == <<tok_file, checkpoint, model, model_op, inference_engine>>
concVars == <<threads, gen_max_len>>
toolVars == <<gm_op, events, calendar_file, sched_op, cmd_op>>
auxVars == <<toolVars, trainer>>
vars == <<tokVars, genVars, ctxVars, maskVars, storeVars, concVars, auxVars>>

(***************************************************************************)
(* Characters and strings                                                  *)
(***************************************************************************)

\* The characters the model uses, in code-point order (Python compares
\* strings by code point; only the order matters to sorted()).
Alphabet == <<"\n", " ", "/", ":", "<", ">", "A", "H", "U",
              "a", "b", "c", "d", "e", "h", "i", "k", "n", "o", "p",
              "r", "s", "t", "u", "w">>

Ord(c) == CHOOSE i \in 1..Len(Alphabet) : Alphabet[i] = c

\* str.lower() on the characters of Alphabet
Lower(c) == CASE c = "A" -> "a"
              [] c = "H" -> "h"
              [] c = "U" -> "u"
              [] OTHER -> c

LowerStr(s) == [i \in 1..Len(s) |-> Lower(s[i])]

IsSpace(c) == c \in {" ", "\n"}

\* str.strip()
RECURSIVE LStrip(_)
LStrip(s) == IF s # <<>> /\ IsSpace(Head(s)) THEN LStrip(Tail(s)) ELSE s

RECURSIVE RStrip(_)
RStrip(s) == IF s # <<>> /\ IsSpace(s[Len(s)])
             THEN RStrip(SubSeq(s, 1, Len(s) - 1)) ELSE s

Strip(s) == RStrip(LStrip(s))

\* the longest prefix of s without whitespace
RECURSIVE TakeWord(_)
TakeWord(s) == IF s = <<>> \/ IsSpace(Head(s)) THEN <<>>
               ELSE <<Head(s)>> \o TakeWord(Tail(s))

\* str.split(): the maximal runs of non-whitespace characters
RECURSIVE Split(_)
Split(s) ==
    LET t == LStrip(s)
        w == TakeWord(t)
    IN IF t = <<>> THEN <<>>
       ELSE <<w>> \o Split(SubSeq(t, Len(w) + 1, Len(t)))

\* ''.join(seq_of_strings)
RECURSIVE Concat(_)
Concat(ss) == IF ss = <<>> THEN <<>> ELSE Head(ss) \o Concat(Tail(ss))

\* sep.join(seq_of_strings)
RECURSIVE Join(_, _)
Join(ss, sep) == IF ss = <<>> THEN <<>>
                 ELSE IF Len(ss) = 1 THEN Head(ss)
                 ELSE Head(ss) \o sep \o Join(Tail(ss), sep)

IsPrefix(p, s) == Len(p) <= Len(s) /\ SubSeq(s, 1, Len(p)) = p

\* str.replace(old, new): non-overlapping occurrences, left to right
RECURSIVE Replace(_, _, _)
Replace(s, old, new) ==
    IF s = <<>> THEN <<>>
    ELSE IF IsPrefix(old, s)
         THEN new \o Replace(SubSeq(s, Len(old) + 1, Len(s)), old, new)
         ELSE <<Head(s)>> \o Replace(Tail(s), old, new)

\* Python's < on strings: lexicographic by code point, a proper prefix first
RECURSIVE StrLess(_, _)
StrLess(s, t) ==
    IF t = <<>> THEN FALSE
    ELSE IF s = <<>> THEN TRUE
    ELSE IF Head(s) = Head(t) THEN StrLess(Tail(s), Tail(t))
    ELSE Ord(Head(s)) < Ord(Head(t))

\* sorted(set_of_strings)
RECURSIVE Sorted(_)
Sorted(S) ==
    IF S = {} THEN <<>>
    ELSE LET m == CHOOSE x \in S : \A y \in S \ {x} : StrLess(x, y)
         IN <<m>> \o Sorted(S \ {m})

Range(f) == {f[i] : i \in DOMAIN f}

(***************************************************************************)
(* BPETokenizer (src/training/tokenizer.py)                                *)
(***************************************************************************)

EOW == <<"<", "/", "w", ">">>
PAD == <<"<", "p", "a", "d", ">">>
UNK == <<"<", "u", "n", "k", ">">>
BOS == <<"<", "b", "o", "s", ">">>
EOS == <<"<", "e", "o", "s", ">">>

\* the default of __init__ (tokenizer.py:22)
DefaultSpecialTokens == <<PAD, UNK, BOS, EOS>>

\* the special_tokens arguments the tokenizer is built with: <<>> is None
\* (or the empty list)
SpecialTokenArgs == { <<>>, <<PAD, BOS, EOS>> }

\* special_tokens or ['<pad>', '<unk>', '<bos>', '<eos>'] (tokenizer.py:22)
SpecialTokensOf(arg) == IF arg = <<>> THEN DefaultSpecialTokens ELSE arg

\* A Counter (a dict, which keeps insertion order) is a sequence of
\* [key, n] records in insertion order.
HasKey(cnt, k) == \E i \in 1..Len(cnt) : cnt[i].key = k

CounterGet(cnt, k) ==
    IF HasKey(cnt, k) THEN cnt[CHOOSE i \in 1..Len(cnt) : cnt[i].key = k].n ELSE 0

CounterAdd(cnt, k, n) ==
    IF HasKey(cnt, k)
    THEN [i \in 1..Len(cnt) |->
            IF cnt[i].key = k THEN [key |-> k, n |-> cnt[i].n + n] ELSE cnt[i]]
    ELSE Append(cnt, [key |-> k, n |-> n])

RECURSIVE CounterUpdate(_, _)
CounterUpdate(cnt, ks) ==
    IF ks = <<>> THEN cnt
    ELSE CounterUpdate(CounterAdd(cnt, Head(ks), 1), Tail(ks))

\* _get_word_freqs: the words of every text, counted, not lower-cased
RECURSIVE WordFreqsFrom(_, _)
WordFreqsFrom(cnt, texts) ==
    IF texts = <<>> THEN cnt
    ELSE WordFreqsFrom(CounterUpdate(cnt, Split(Head(texts))), Tail(texts))

GetWordFreqs(texts) == WordFreqsFrom(<<>>, texts)

\* _get_splits: list(word) + ['</w>']
GetSplits(word) == [i \in 1..Len(word) |-> <<word[i]>>] \o <<EOW>>

\* the pairs of one word's symbols, each counted with the word's frequency
RECURSIVE PairFreqsOfWord(_, _, _, _)
PairFreqsOfWord(cnt, syms, i, f) ==
    IF i > Len(syms) - 1 THEN cnt
    ELSE PairFreqsOfWord(CounterAdd(cnt, <<syms[i], syms[i + 1]>>, f), syms, i + 1, f)

\* _compute_pair_freqs: sp is the splits dict, a sequence of [word, syms]
RECURSIVE PairFreqsFrom(_, _, _, _)
PairFreqsFrom(cnt, sp, k, wf) ==
    IF k > Len(sp) THEN cnt
    ELSE PairFreqsFrom(
            PairFreqsOfWord(cnt, sp[k].syms, 1, CounterGet(wf, sp[k].word)),
            sp, k + 1, wf)

ComputePairFreqs(sp, wf) == PairFreqsFrom(<<>>, sp, 1, wf)

\* a max that returns the last of the keys whose count is maximal
BestPairLast(pf) ==
    LET i == CHOOSE j \in 1..Len(pf) :
                /\ \A k \in 1..Len(pf) : pf[k].n <= pf[j].n
                /\ \A k \in (j + 1)..Len(pf) : pf[k].n < pf[j].n
    IN pf[i].key

\* max(pair_freqs, key=pair_freqs.get): the first key, in iteration order,
\* whose count is maximal
BestPair(pf) ==
    LET i == CHOOSE j \in 1..Len(pf) :
                /\ \A k \in 1..Len(pf) : pf[k].n <= pf[j].n
                /\ \A k \in 1..(j - 1) : pf[k].n < pf[j].n
    IN pf[i].key

\* pattern.sub(repl, s) for the pattern (?<!\S) bigram (?!\S): s is scanned
\* left to right; atStart says that the character before s is whitespace or
\* that s starts the string.
RECURSIVE SubBigram(_, _, _, _)
SubBigram(s, bigram, repl, atStart) ==
    IF s = <<>> THEN <<>>
    ELSE IF /\ atStart
            /\ IsPrefix(bigram, s)
            /\ (Len(s) = Len(bigram) \/ IsSpace(s[Len(bigram) + 1]))
         THEN repl \o SubBigram(SubSeq(s, Len(bigram) + 1, Len(s)), bigram, repl,
                                IsSpace(bigram[Len(bigram)]))
         ELSE <<Head(s)>> \o SubBigram(Tail(s), bigram, repl, IsSpace(Head(s)))

\* the merge of one pair in one list of symbols:
\* pattern.sub(''.join(pair), ' '.join(symbols)).split()
MergeSymbols(pair, syms) ==
    Split(SubBigram(Join(syms, <<" ">>), Join(pair, <<" ">>), Concat(pair), TRUE))

\* _merge_pair
MergePair(pair, sp) ==
    [k \in 1..Len(sp) |-> [word |-> sp[k].word, syms |-> MergeSymbols(pair, sp[k].syms)]]

\* the loop of train (tokenizer.py:87-95): i iterations are left
RECURSIVE TrainLoop(_, _, _, _, _)
TrainLoop(i, sp, mrg, vset, wf) ==
    LET pf == ComputePairFreqs(sp, wf)
        best == BestPair(pf)
    IN IF i <= 0 \/ pf = <<>> THEN [merges |-> mrg, vset |-> vset]
       ELSE TrainLoop(i - 1, MergePair(best, sp), Append(mrg, best),
                      vset \cup {Concat(best)}, wf)

\* tokenizer.py:101-106: the merged tokens that the vocabulary lacks are
\* appended with the next free id
RECURSIVE AddMerged(_, _, _)
AddMerged(mrg, v, iv) ==
    IF mrg = <<>> THEN [vocab |-> v, inverse_vocab |-> iv]
    ELSE LET merged == Concat(Head(mrg))
         IN IF merged \in DOMAIN v THEN AddMerged(Tail(mrg), v, iv)
            ELSE AddMerged(Tail(mrg),
                           (merged :> Cardinality(DOMAIN v)) @@ v,
                           (Cardinality(DOMAIN iv) :> merged) @@ iv)

\* an enumeration that starts at 1
EnumerateFromOne(vset) ==
    LET srt == Sorted(vset)
    IN [t \in vset |-> CHOOSE i \in 1..Len(srt) : srt[i] = t]

\* {token: idx for idx, token in enumerate(sorted(vocab))}
EnumerateSorted(vset) ==
    LET srt == Sorted(vset)
    IN [t \in vset |-> (CHOOSE i \in 1..Len(srt) : srt[i] = t) - 1]

\* {idx: token for token, idx in self.vocab.items()}
InvertVocab(v) ==
    [i \in {v[t] : t \in DOMAIN v} |-> CHOOSE t \in DOMAIN v : v[t] = i]

\* the characters of the words of the corpus (tokenizer.py:78-80)
CorpusChars(wf) == UNION {{<<wf[i].key[j]>> : j \in 1..Len(wf[i].key)} : i \in 1..Len(wf)}

\* tokenizer.py:71: the splits train starts from, in the order of word_freqs
InitialSplits(wf) ==
    [k \in 1..Len(wf) |-> [word |-> wf[k].key, syms |-> GetSplits(wf[k].key)]]

\* the splits before each iteration of the loop of train that made a merge
\* (tokenizer.py:87-95), given the merges it made
RECURSIVE SplitsBefore(_, _)
SplitsBefore(sp, mrg) ==
    IF mrg = <<>> THEN <<>>
    ELSE <<sp>> \o SplitsBefore(MergePair(Head(mrg), sp), Tail(mrg))

\* train(texts) of a tokenizer built with vocab_size vsize and the special
\* tokens specials: what it assigns to word_freqs, merges, vocab and
\* inverse_vocab
Train(texts, vsize, specials) ==
    LET wf == GetWordFreqs(texts)
        sp0 == [k \in 1..Len(wf) |-> [word |-> wf[k].key, syms |-> GetSplits(wf[k].key)]]
        vset0 == Range(specials) \cup CorpusChars(wf) \cup {EOW}
        loop == TrainLoop(vsize - Cardinality(vset0), sp0, <<>>, vset0, wf)
        v1 == EnumerateSorted(loop.vset)
        fin == AddMerged(loop.merges, v1, InvertVocab(v1))
    IN [word_freqs |-> wf, merges |-> loop.merges,
        vocab |-> fin.vocab, inverse_vocab |-> fin.inverse_vocab]

\* the merges of _apply_bpe, in order, on the symbols of one word
RECURSIVE ApplyMerges(_, _)
ApplyMerges(mrg, syms) ==
    IF mrg = <<>> THEN syms
    ELSE ApplyMerges(Tail(mrg), MergeSymbols(Head(mrg), syms))

\* _apply_bpe, given the cache self.splits (a function on the cached words):
\* the symbols returned and the cache afterwards
ApplyBpe(cache, mrg, word) ==
    IF word \in DOMAIN cache THEN [syms |-> cache[word], cache |-> cache]
    ELSE LET syms == ApplyMerges(mrg, GetSplits(word))
         IN [syms |-> syms, cache |-> (word :> syms) @@ cache]

\* tokenizer.py:147-151: the ids of one word's symbols
RECURSIVE SymbolIds(_, _)
SymbolIds(syms, v) ==
    IF syms = <<>> THEN <<>>
    ELSE (IF Head(syms) \in DOMAIN v THEN <<v[Head(syms)]>>
          ELSE IF UNK \in DOMAIN v THEN <<v[UNK]>>
          ELSE <<>>) \o SymbolIds(Tail(syms), v)

\* tokenizer.py:145-151: the loop over the words
RECURSIVE EncodeWords(_, _, _, _)
EncodeWords(words, cache, mrg, v) ==
    IF words = <<>> THEN [ids |-> <<>>, cache |-> cache]
    ELSE LET a == ApplyBpe(cache, mrg, Head(words))
             rest == EncodeWords(Tail(words), a.cache, mrg, v)
         IN [ids |-> SymbolIds(a.syms, v) \o rest.ids, cache |-> rest.cache]

\* an encode that takes the whole text for one word
EncodeUnsplit(text, add_special_tokens, cache, mrg, v) ==
    LET body == EncodeWords(<<Strip(LowerStr(text))>>, cache, mrg, v)
        pre == IF add_special_tokens /\ BOS \in DOMAIN v THEN <<v[BOS]>> ELSE <<>>
        post == IF add_special_tokens /\ EOS \in DOMAIN v THEN <<v[EOS]>> ELSE <<>>
    IN [ids |-> pre \o body.ids \o post, cache |-> body.cache]

\* encode(text, add_special_tokens): the ids returned and the cache afterwards
Encode(text, add_special_tokens, cache, mrg, v) ==
    LET words == Split(Strip(LowerStr(text)))
        body == EncodeWords(words, cache, mrg, v)
        pre == IF add_special_tokens /\ BOS \in DOMAIN v THEN <<v[BOS]>> ELSE <<>>
        post == IF add_special_tokens /\ EOS \in DOMAIN v THEN <<v[EOS]>> ELSE <<>>
    IN [ids |-> pre \o body.ids \o post, cache |-> body.cache]

\* tokenizer.py:169-175: the tokens decode keeps
RECURSIVE DecodeTokens(_, _, _, _)
DecodeTokens(ids, skip_special_tokens, iv, specials) ==
    IF ids = <<>> THEN <<>>
    ELSE (IF Head(ids) \in DOMAIN iv
          THEN IF skip_special_tokens /\ iv[Head(ids)] \in Range(specials)
               THEN <<>> ELSE <<iv[Head(ids)]>>
          ELSE <<>>)
         \o DecodeTokens(Tail(ids), skip_special_tokens, iv, specials)

\* decode(token_ids, skip_special_tokens): it has no raise statement, so
\* its outcome is always a returned string
Decode(ids, skip_special_tokens, iv, specials) ==
    [status |-> "ok",
     text |-> Strip(Replace(Concat(DecodeTokens(ids, skip_special_tokens, iv, specials)),
                            EOW, <<" ">>))]

\* ---- save and load (tokenizer.py:181-208)
\* A tokenizer object is a record of its attributes; NoTokenizer is the
\* absence of an object (None, or nothing returned).
NoTokenizer == [cls |-> "none"]

TokenizerObject(vsize, specials, wf, cache, mrg, v, iv) ==
    [cls |-> "BPETokenizer", vocab_size |-> vsize, special_tokens |-> specials,
     word_freqs |-> wf, splits |-> cache, merges |-> mrg, vocab |-> v,
     inverse_vocab |-> iv]

\* a file is missing, holds text that is not JSON, or holds a JSON object,
\* a record of its keys
MissingFile == [kind |-> "missing"]
GarbageFile == [kind |-> "garbage"]
JsonFile(data) == [kind |-> "json", data |-> data]

\* save(path): json.dump of vocab_size, special_tokens, merges and vocab;
\* JSON writes the pairs of merges as two-element lists and the vocab as an
\* object from the tokens to their ids.  word_freqs, splits and
\* inverse_vocab are not written.
TokenizerSave(t) ==
    JsonFile([vocab_size |-> t.vocab_size, special_tokens |-> t.special_tokens,
              merges |-> [i \in 1..Len(t.merges) |-> <<t.merges[i][1], t.merges[i][2]>>],
              vocab |-> t.vocab])

\* an exception leaves the call: nothing is returned, partial is the local
\* object built so far, to which no reference is left
Raised(error, partial) ==
    [status |-> "error", error |-> error, partial |-> partial]

\* a return of obj
ReturnedObject(obj) == [status |-> "ok", error |-> "none", partial |-> obj]

\* load(path) (tokenizer.py:194-208): open and json.load raise on a missing
\* file and on text that is not JSON, data[key] raises on a missing key;
\* cls(...) builds an object with empty merges and vocab, which are then
\* assigned from the record
TokenizerLoad(file) ==
    IF file.kind = "missing" THEN Raised("FileNotFoundError", NoTokenizer)
    ELSE IF file.kind = "garbage" THEN Raised("JSONDecodeError", NoTokenizer)
    ELSE LET data == file.data
             built == TokenizerObject(data.vocab_size, SpecialTokensOf(data.special_tokens),
                                      <<>>, <<>>, <<>>, <<>>, <<>>)
             withMerges == [built EXCEPT !.merges =
                               [i \in 1..Len(data.merges) |->
                                   <<data.merges[i][1], data.merges[i][2]>>]]
         IN IF ~({"vocab_size", "special_tokens"} \subseteq DOMAIN data)
            THEN Raised("KeyError", NoTokenizer)
            ELSE IF "merges" \notin DOMAIN data THEN Raised("KeyError", built)
            ELSE IF "vocab" \notin DOMAIN data THEN Raised("KeyError", withMerges)
            ELSE ReturnedObject([withMerges EXCEPT !.vocab = data.vocab,
                                                   !.inverse_vocab = InvertVocab(data.vocab)])

\* what the caller of a constructor or of a load holds afterwards
ValueOf(outcome, none) == IF outcome.status = "ok" THEN outcome.partial ELSE none


(***************************************************************************)
(* The tokenizer as a state machine: one object, built by __init__, on     *)
(* which train, encode and decode are called in any order.                 *)
(***************************************************************************)

\* the vocab_size values the tokenizer is built with
VocabSizes == {8, 30}

\* the training corpora (lists of texts)
Corpora == {
    <<<<"a", "b", " ", "a", "b", " ", "b">>>>,
    <<<<"A", "b">>>>,
    <<<<"t", "h", "e", " ", "c", "a", "t", " ", "s", "a", "t">>, <<"t", "h", "e", " ", "c", "a", "t", " ", "r", "a", "n">>>> }

\* the texts given to encode
Texts == {
    <<"a", "b">>,
    <<"A", "b">>,
    <<" ", "b", " ", " ", "a", "b", "\n">>,
    <<"t", "h", "e", " ", "c", "a", "t">> }

\* token id lists given to decode besides the lists encode returned; 99 and
\* -1 are ids no vocabulary of the model holds
DecodeInputs == { <<>>, <<0, 99>>, <<5, -1, 0>> }

NoText == <<"\n">>

NoOp == [op |-> "none", text |-> NoText, add_special_tokens |-> FALSE, ids |-> <<>>,
         skip_special_tokens |-> FALSE, status |-> "none", out |-> <<>>, src |-> NoText,
         obj |-> NoTokenizer]

\* BPETokenizer.__init__ (tokenizer.py:20-27)
TokInit ==
    /\ vocab_size \in VocabSizes
    /\ special_tokens \in {SpecialTokensOf(arg) : arg \in SpecialTokenArgs}
    /\ word_freqs = <<>>
    /\ splits = <<>>
    /\ merges = <<>>
    /\ vocab = <<>>
    /\ inverse_vocab = <<>>
    /\ tok_op = NoOp

\* train(texts): self.splits, the cache of _apply_bpe, is not touched
TrainCall(texts) ==
    LET tr == Train(texts, vocab_size, special_tokens)
    IN /\ word_freqs' = tr.word_freqs
       /\ merges' = tr.merges
       /\ vocab' = tr.vocab
       /\ inverse_vocab' = tr.inverse_vocab
       /\ tok_op' = [NoOp EXCEPT !.op = "train"]
       /\ UNCHANGED <<vocab_size, special_tokens, splits>>

\* an encode that empties the merge table
EncodeCallForgets(text, add_special_tokens) ==
    LET e == Encode(text, add_special_tokens, splits, merges, vocab)
    IN /\ splits' = e.cache
       /\ merges' = <<>>
       /\ tok_op' = [NoOp EXCEPT !.op = "encode", !.text = text,
                                 !.add_special_tokens = add_special_tokens,
                                 !.ids = e.ids, !.status = "ok"]
       /\ UNCHANGED <<vocab_size, special_tokens, word_freqs, vocab, inverse_vocab>>

\* encode(text, add_special_tokens)
EncodeCall(text, add_special_tokens) ==
    LET e == Encode(text, add_special_tokens, splits, merges, vocab)
    IN /\ splits' = e.cache
       /\ tok_op' = [NoOp EXCEPT !.op = "encode", !.text = text,
                                 !.add_special_tokens = add_special_tokens,
                                 !.ids = e.ids, !.status = "ok"]
       /\ UNCHANGED <<vocab_size, special_tokens, word_freqs, merges, vocab, inverse_vocab>>

\* decode(token_ids, skip_special_tokens); src is the text whose encoding
\* token_ids is, when decode is given the list the last encode returned
DecodeCall(ids, skip_special_tokens, src) ==
    LET d == Decode(ids, skip_special_tokens, inverse_vocab, special_tokens)
    IN /\ tok_op' = [NoOp EXCEPT !.op = "decode", !.ids = ids,
                                 !.skip_special_tokens = skip_special_tokens,
                                 !.status = d.status, !.out = d.text, !.src = src]
       /\ UNCHANGED <<vocab_size, special_tokens, word_freqs, splits, merges, vocab,
                      inverse_vocab>>

\* the tokenizer object the variables hold
Self == TokenizerObject(vocab_size, special_tokens, word_freqs, splits, merges,
                        vocab, inverse_vocab)

\* save(path)
TokSave ==
    /\ tok_file' = TokenizerSave(Self)
    /\ tok_op' = [NoOp EXCEPT !.op = "save", !.status = "ok"]
    /\ UNCHANGED <<vocab_size, special_tokens, word_freqs, splits, merges, vocab,
                   inverse_vocab>>

\* tokenizer = BPETokenizer.load(path): the name is bound to the object
\* load returns; when load raises it keeps the object it had
TokLoad ==
    /\ \E l \in {TokenizerLoad(tok_file)} :
       \E t \in {ValueOf(l, Self)} :
        /\ vocab_size' = t.vocab_size
        /\ special_tokens' = t.special_tokens
        /\ word_freqs' = t.word_freqs
        /\ splits' = t.splits
        /\ merges' = t.merges
        /\ vocab' = t.vocab
        /\ inverse_vocab' = t.inverse_vocab
        /\ tok_op' = [NoOp EXCEPT !.op = "load", !.status = l.status,
                                  !.obj = ValueOf(l, NoTokenizer)]
    /\ UNCHANGED tok_file

\* files that are missing, hold other text, or were cut short
DamagedFiles ==
    { MissingFile, GarbageFile,
      JsonFile([vocab_size |-> 30]),
      JsonFile([vocab_size |-> 30, special_tokens |-> DefaultSpecialTokens]),
      JsonFile([vocab_size |-> 30, special_tokens |-> DefaultSpecialTokens,
                merges |-> << <<<<"a">>, <<"b">>>> >>]) }

TokTrain == \E texts \in Corpora : TrainCall(texts)

TokEncode == \E text \in Texts, a \in BOOLEAN : EncodeCall(text, a)

TokDecodeEncoded ==
    /\ tok_op.op = "encode"
    /\ \E skip \in BOOLEAN : DecodeCall(tok_op.ids, skip, tok_op.text)

TokDecode == \E ids \in DecodeInputs, skip \in BOOLEAN : DecodeCall(ids, skip, NoText)


(***************************************************************************)
(* TextGenerator (src/inference/generator.py)                              *)
(*                                                                         *)
(* The model (encoder, decoder, output projection) is any function from    *)
(* the target prefix to a logits vector.  It is revealed lazily: oracle    *)
(* holds the logits of the prefixes the decoder was called on so far, and  *)
(* a call on a new prefix draws its logits from LogitSet.  Logits are in   *)
(* units of ln 2 and LogitSet holds vectors whose softmax is dyadic, so    *)
(* that log-probabilities are integers (in units of ln 2) and every        *)
(* comparison the code makes on real numbers is made exactly.              *)
(***************************************************************************)

\* dict.get(key, default)
VocabGet(v, key, default) == IF key \in DOMAIN v THEN v[key] ELSE default

\* the tokenizer the generator is built with: trained on ["a"], vocab_size 6
GenTok == Train(<< <<"a">> >>, 6, DefaultSpecialTokens)

\* the token ids the output projection ranges over
Tokens == 0..(Cardinality(DOMAIN GenTok.vocab) - 1)

\* generator.py:26-28
pad_idx == VocabGet(GenTok.vocab, PAD, 0)
bos_idx == VocabGet(GenTok.vocab, BOS, 1)
eos_idx == VocabGet(GenTok.vocab, EOS, 2)

\* a logits vector from the values for the tokens 0, 1, ...
Vec(s) == [t \in Tokens |-> s[t + 1]]

\* the logits the model may give, over </w>, <bos>, <eos>, <pad>, <unk>, a
LogitSet == { Vec(<<0, 0, 3, 1, 1, 1>>),   \* <eos> first, alone
              Vec(<<1, 0, 1, 0, 1, 3>>),   \* a first, alone; </w>, <eos>, <unk> tie next
              Vec(<<0, 0, 1, 0, 0, 1>>) }  \* <eos> and a tie for the maximum

RECURSIVE Pow(_, _)
Pow(b, e) == IF e <= 0 THEN 1 ELSE b * Pow(b, e - 1)

RECURSIVE SumOver(_, _)
SumOver(f, S) == IF S = {} THEN 0
                 ELSE LET x == CHOOSE y \in S : TRUE IN f[x] + SumOver(f, S \ {x})

MaxOf(f, S) == CHOOSE m \in {f[x] : x \in S} : \A x \in S : f[x] <= m

\* torch.argmax: the index of the first maximal value
Argmax(lg) == CHOOSE t \in Tokens :
                /\ \A u \in Tokens : lg[u] <= lg[t]
                /\ \A u \in Tokens : u < t => lg[u] < lg[t]

\* a top-k that lists the k smallest values, in ascending order
RECURSIVE TopKOrdersSmallest(_, _, _)
TopKOrdersSmallest(vals, S, k) ==
    IF k <= 0 \/ S = {} THEN {<<>>}
    ELSE UNION { { <<m>> \o rest : rest \in TopKOrdersSmallest(vals, S \ {m}, k - 1) } :
                 m \in {x \in S : \A y \in S : vals[x] <= vals[y]} }

\* torch.sort(descending=True) / torch.topk give the values in descending
\* order; the order among equal values is not specified.  The possible index
\* sequences of the k largest of vals over the index set S:
RECURSIVE TopKOrders(_, _, _)
TopKOrders(vals, S, k) ==
    IF k <= 0 \/ S = {} THEN {<<>>}
    ELSE UNION { { <<m>> \o rest : rest \in TopKOrders(vals, S \ {m}, k - 1) } :
                 m \in {x \in S : vals[x] = MaxOf(vals, S)} }

\* log2 of a power of two
RECURSIVE Log2(_)
Log2(n) == IF n <= 1 THEN 0 ELSE 1 + Log2(n \div 2)

\* F.log_softmax(logits), in units of ln 2
LogSoftmax(lg) ==
    LET W == SumOver([t \in Tokens |-> Pow(2, lg[t])], Tokens)
    IN [t \in Tokens |-> lg[t] - Log2(W)]

\* the temperature from which on float32 cannot tell the scaled logits of
\* LogitSet apart: (l - max) / temperature is then closer to 0 than 2^-25,
\* exp of it rounds to 1.0, and softmax returns equal probabilities
IsFlat(temperature) == temperature >= 100000000

\* F.softmax(logits / temperature) as integer weights proportional to the
\* probabilities, for the temperatures of SampleParams: 1 (logits are in
\* units of ln 2, so exp gives powers of two), -1 (the order of the logits
\* is reversed) and the flat one; temperature 0 raises in SampleRaises
SoftmaxWeights(lg, temperature) ==
    IF IsFlat(temperature) THEN [t \in Tokens |-> 1]
    ELSE IF temperature > 0 THEN [t \in Tokens |-> Pow(2, lg[t])]
    ELSE [t \in Tokens |-> Pow(2, MaxOf(lg, Tokens) - lg[t])]

\* MultiHeadAttention.forward (attention.py:62-75) given a 2-D mask m of
\* shape [size, size] and scores of shape [batch_size, heads, seq_len,
\* seq_len].  unsqueeze(1).unsqueeze(2) makes the mask [size, 1, 1, size];
\* expand(batch_size, heads, seq_len, seq_len) raises unless each of its
\* two sizes is 1 or the size asked for, and repeats the mask otherwise;
\* masked_fill(mask == 0, -inf) leaves a score attendable where the
\* expanded mask is True.  attend[i][j] tells whether the query i of the
\* batch entry 0 can attend to the key j.
ApplyMask(m, size, batch_size, seq_len) ==
    IF (size # 1 /\ size # batch_size) \/ (size # 1 /\ size # seq_len)
    THEN [status |-> "error", attend |-> <<>>]
    ELSE [status |-> "ok",
          attend |-> [i \in 0..(seq_len - 1) |->
                        [j \in 0..(seq_len - 1) |->
                            m[0][IF size = 1 THEN 0 ELSE j]]]]

\* _generate_square_subsequent_mask: torch.triu(ones, diagonal=1).bool(),
\* rows and columns 0 .. size-1
GenerateSquareSubsequentMask(size) ==
    [i \in 0..(size - 1) |-> [j \in 0..(size - 1) |-> j >= i + 1]]


Last(s) == s[Len(s)]

\* a loop that makes one iteration too many
RangeDoneLate(i, n) == i >= n + 1

\* for _ in range(n): the loop is over once i iterations are done
RangeDone(i, n) == i >= n

\* a test for eos that never succeeds: decoding goes on after an eos
EndsInEosNever(seq) == FALSE

\* seq[-1] == self.eos_idx / next_token.item() == self.eos_idx
EndsInEos(seq) == Last(seq) = eos_idx

\* every strategy returns its sequence whatever its last token is
ReturnStatus(seq) == "done"

\* ---- greedy_decode (generator.py:45-53): one iteration appends the argmax
GreedyNext(lg) == Argmax(lg)

\* ---- beam_search (generator.py:75-113)
\* A beam is [seq, score]; a finished entry is [seq, score], its score frozen
\* as the penalised score score / len(seq) ** length_penalty of that moment.
\* length_penalty is the fraction pen[1] / pen[2].  Scores are sums of
\* log-probabilities, so they are <= 0, and for a, b <= 0
\*     a / la^p > b / lb^p   iff   (-a)^pd * lb^pn < (-b)^pd * la^pn.
PenalisedGreater(a, b, pen) ==
    Pow(0 - a.score, pen[2]) * Pow(Len(b.seq), pen[1])
        < Pow(0 - b.score, pen[2]) * Pow(Len(a.seq), pen[1])

\* list.sort(key=penalised score, reverse=True): a stable sort, equal keys
\* keep their order
RECURSIVE InsertDesc(_, _, _)
InsertDesc(sorted, x, pen) ==
    IF sorted = <<>> THEN <<x>>
    ELSE IF PenalisedGreater(x, Head(sorted), pen) THEN <<x>> \o sorted
    ELSE <<Head(sorted)>> \o InsertDesc(Tail(sorted), x, pen)

RECURSIVE SortDesc(_, _)
SortDesc(seq, pen) ==
    IF seq = <<>> THEN <<>>
    ELSE InsertDesc(SortDesc(SubSeq(seq, 1, Len(seq) - 1), pen), Last(seq), pen)

\* generator.py:81-98, the body of the loop for the beam b: r holds the
\* candidates and the newly finished entries of the beams after b
ExpandOne(b, lgOf, beam_size, r) ==
    IF EndsInEos(b.seq)
    THEN {[cands |-> r.cands, fin |-> <<b>> \o r.fin]}
    ELSE { [cands |-> [i \in 1..beam_size |->
                          [seq |-> Append(b.seq, ord[2][i]),
                           score |-> b.score + ord[1][ord[2][i]]]] \o r.cands,
            fin |-> r.fin] :
           ord \in UNION { {<<lp, o>> : o \in TopKOrders(lp, Tokens, beam_size)} :
                           lp \in {LogSoftmax(lgOf[b.seq])} } }

\* generator.py:81-98, the loop over the beams: the possible pairs of the
\* candidates and the newly finished entries, lgOf giving the logits of
\* every open beam
RECURSIVE ExpandBeams(_, _, _)
ExpandBeams(bs, lgOf, beam_size) ==
    IF bs = <<>> THEN {[cands |-> <<>>, fin |-> <<>>]}
    ELSE UNION { ExpandOne(Head(bs), lgOf, beam_size, r) :
                 r \in ExpandBeams(Tail(bs), lgOf, beam_size) }

\* the beams a decoder call is made on in this iteration
OpenBeams(bs) == {bs[i].seq : i \in {j \in 1..Len(bs) : ~EndsInEos(bs[j].seq)}}

\* generator.py:104-105
KeepTop(cands, beam_size, pen) ==
    LET srt == SortDesc(cands, pen)
    IN SubSeq(srt, 1, IF Len(srt) < beam_size THEN Len(srt) ELSE beam_size)

\* a return that looks at the last beams only and forgets the finished set
BeamResultOpenOnly(fin, bs, pen) == Tail(SortDesc(bs, pen)[1].seq)

\* generator.py:107-113: the best of finished + beams, without its bos
BeamResult(fin, bs, pen) == Tail(SortDesc(fin \o bs, pen)[1].seq)

\* ---- sample (generator.py:134-166)
\* top_k is [set, k]: set is FALSE for None.  top_p10 is top_p in tenths.

\* torch.topk(probs, top_k) raises when top_k is not in 0 .. vocabulary size
TopKRaises(top_k) == top_k.set /\ (top_k.k < 0 \/ top_k.k > Cardinality(Tokens))

\* ---- float32, the dtype of logits and probs
\* A float32 value v that is 0 or has 2^-5 <= v < 2 is held as the integer
\* v * 2^28: the float32 values of [2^(e-1), 2^e) are the multiples of
\* 2^(e-24), so each of them is such an integer.  The probabilities of
\* LogitSet under SampleParams are 0 or at least 1/29.

\* a mantissa has 24 bits: it is in Mantissa23 .. Mantissa24 - 1
Mantissa23 == Pow(2, 23)
Mantissa24 == Pow(2, 24)

\* the distance of the float32 values around u
RECURSIVE Spacing(_)
Spacing(u) == IF u < Mantissa24 THEN 1 ELSE 2 * Spacing(u \div 2)

\* the float32 value nearest to u, the one of the even mantissa on a tie
RoundF32(u) ==
    LET q == Spacing(u)
        r == u % q
        d == u - r
    IN IF 2 * r < q THEN d
       ELSE IF 2 * r > q THEN d + q
       ELSE IF (d \div q) % 2 = 0 THEN d ELSE d + q

\* the float32 sum of two float32 values
AddF32(a, b) == RoundF32(a + b)

\* the binary long division of a by b: <<q, r, n>> with a * 2^n = q * b + r
\* and r < b, continued until the quotient q has 24 bits
RECURSIVE DivBits(_, _, _, _)
DivBits(q, r, b, n) ==
    IF q >= Mantissa23 THEN <<q, r, n>>
    ELSE IF 2 * r >= b THEN DivBits(2 * q + 1, 2 * r - b, b, n + 1)
    ELSE DivBits(2 * q, 2 * r, b, n + 1)

\* the float32 quotient a / b of 0 <= a <= b, a and b in the same unit: the
\* 24 leading bits of the quotient, rounded to nearest, to even on a tie
DivF32(a, b) ==
    IF a = 0 THEN 0
    ELSE LET d == IF a = b THEN DivBits(1, 0, b, 0) ELSE DivBits(0, a, b, 0)
             m == IF 2 * d[2] > b \/ (2 * d[2] = b /\ d[1] % 2 = 1) THEN d[1] + 1 ELSE d[1]
         IN m * Pow(2, 28 - d[3])

\* generator.py:138, F.softmax(logits / temperature): exp(l - max) is
\* SoftmaxWeights(..)[t] / MaxOf(..), a power of two, the sum of these is
\* exact in float32, and each probability is the float32 quotient
Softmax(lg, temperature) ==
    LET w == SoftmaxWeights(lg, temperature)
    IN [t \in Tokens |-> DivF32(w[t], SumOver(w, Tokens))]

\* what a reduction of float32 values adds in: float32, every addition
\* rounded, or double, in which the sums of these values are exact and only
\* the float32 result stored is rounded.  torch's CPU kernel of cumsum
\* accumulates float32 in double; which one a kernel uses depends on the
\* kernel and the build.
Accumulators == {"float32", "double"}

\* probs.sum(dim=-1): the float32 sum of the entries p[0] .. p[n]
RECURSIVE SumF32(_, _, _)
SumF32(p, n, acc) ==
    IF acc = "double" THEN RoundF32(SumOver(p, 0..n))
    ELSE IF n < 0 THEN 0 ELSE AddF32(SumF32(p, n - 1, acc), p[n])

\* generator.py:141-145: the possible probabilities after top-k filtering,
\* the k largest divided by their sum; with top_k = 0 the sum is 0 and the
\* quotients are nan, for which SampleRaises stands
TopKFiltered(p, top_k) ==
    IF ~top_k.set THEN {p}
    ELSE UNION { { LET kept == [t \in Tokens |-> IF t \in Range(ord) THEN p[t] ELSE 0]
                       total == SumF32(kept, Cardinality(Tokens) - 1, acc)
                   IN [t \in Tokens |-> IF total = 0 THEN 0 ELSE DivF32(kept[t], total)] :
                   ord \in TopKOrders(p, Tokens, top_k.k) } :
                 acc \in Accumulators }

\* generator.py:150, torch.cumsum(sorted_probs): the running sum of the
\* first j probabilities of p in the order ord, a float32 value, added in
\* the accumulator acc
RECURSIVE CumSum(_, _, _, _)
CumSum(p, ord, j, acc) ==
    IF acc = "double" THEN RoundF32(SumOver([i \in 1..j |-> p[ord[i]]], 1..j))
    ELSE IF j = 1 THEN p[ord[1]]
    ELSE AddF32(CumSum(p, ord, j - 1, acc), p[ord[j]])

\* generator.py:153: top_p as the float32 value cumsum_probs is compared
\* with, top_p10 being top_p in tenths
TopP32(top_p10) ==
    IF top_p10 < 0 THEN 0 - DivF32(0 - top_p10, 10) ELSE DivF32(top_p10, 10)

\* a nucleus filter whose shift is by two positions: it keeps two tokens
\* at least
NucleusFilteredShiftTwo(p, top_p10, acc) ==
    IF top_p10 >= 10 THEN {p}
    ELSE LET n == Cardinality(Tokens)
             top_p == TopP32(top_p10)
             remove(ord, j) == j > 2 /\ CumSum(p, ord, j - 2, acc) > top_p
         IN { [t \in Tokens |->
                 IF remove(ord, CHOOSE j \in 1..n : ord[j] = t) THEN 0 ELSE p[t]] :
              ord \in TopKOrders(p, Tokens, n) }

\* a nucleus filter without the shift: it removes every sorted position
\* whose cumulative probability exceeds top_p, the one that crosses it
\* included
NucleusFilteredNoShift(p, top_p10, acc) ==
    IF top_p10 >= 10 THEN {p}
    ELSE LET n == Cardinality(Tokens)
             top_p == TopP32(top_p10)
             remove(ord, j) == CumSum(p, ord, j, acc) > top_p
         IN { [t \in Tokens |->
                 IF remove(ord, CHOOSE j \in 1..n : ord[j] = t) THEN 0 ELSE p[t]] :
              ord \in TopKOrders(p, Tokens, n) }

\* generator.py:148-158: the possible probabilities after nucleus
\* filtering when cumsum adds in acc, before the division by their sum,
\* which leaves the zeros and the non-zeros what they are.  cumsum_probs >
\* top_p compares float32 values: the running sum of 0.2, 0.2, 0.2, 0.2,
\* 0.1 is 0.90000004 with either accumulator, which is greater than the
\* float32 value of 0.9.
NucleusFiltered(p, top_p10, acc) ==
    IF top_p10 >= 10 THEN {p}
    ELSE LET n == Cardinality(Tokens)
             top_p == TopP32(top_p10)
             \* sorted_indices_to_remove after the shift by one
             remove(ord, j) == j > 1 /\ CumSum(p, ord, j - 1, acc) > top_p
         IN { [t \in Tokens |->
                 IF remove(ord, CHOOSE j \in 1..n : ord[j] = t) THEN 0 ELSE p[t]] :
              ord \in TopKOrders(p, Tokens, n) }

\* torch.multinomial raises on a probability tensor that is not finite or
\* has no positive entry: temperature 0 gives inf/nan logits, top_k = 0
\* gives 0 / 0
SampleRaises(temperature, top_k) ==
    temperature = 0 \/ TopKRaises(top_k) \/ (top_k.set /\ top_k.k = 0)

\* the tokens torch.multinomial may return in one iteration
SampleSupport(lg, temperature, top_k, top_p10) ==
    UNION { UNION { {t \in Tokens : p2[t] > 0} :
                    p2 \in UNION { NucleusFiltered(p1, top_p10, acc) : acc \in Accumulators } } :
            p1 \in TopKFiltered(Softmax(lg, temperature), top_k) }


(***************************************************************************)
(* The generator as a state machine: one call of greedy_decode,            *)
(* beam_search or sample at a time, one loop iteration per step.           *)
(***************************************************************************)

\* the largest max_len a generator is built with
MaxLen == 2

BeamSizes == {1, 2}

\* length_penalty as a fraction: 0, 0.6 (the default) and 1
Penalties == {<<0, 1>>, <<3, 5>>, <<1, 1>>}

NoTopK == [set |-> FALSE, k |-> 0]
TopK(k) == [set |-> TRUE, k |-> k]

\* (temperature, top_k, top_p in tenths) of the sample calls: the defaults,
\* the ends of the valid ranges, and values outside them
SampleParams == {
    <<1, NoTopK, 9>>, <<1, NoTopK, 10>>, <<1, NoTopK, 0>>, <<1, NoTopK, 5>>,
    <<1, TopK(1), 10>>, <<1, TopK(2), 9>>, <<1000000000, NoTopK, 0>>,
    <<0, NoTopK, 9>>, <<-1, NoTopK, 9>>, <<1, NoTopK, -1>>, <<1, NoTopK, 15>>,
    <<1, TopK(0), 9>>, <<1, TopK(-1), 9>>, <<1, TopK(7), 9>> }

\* SampleSupport over the logits and the parameters of the calls, computed
\* once
SupportTable ==
    { <<lg, sp, SampleSupport(lg, sp[1], sp[2], sp[3])>> :
        lg \in LogitSet, sp \in {p \in SampleParams : ~SampleRaises(p[1], p[2])} }

SupportOf(lg, temperature, top_k, top_p10) ==
    (CHOOSE e \in SupportTable :
        e[1] = lg /\ e[2] = <<temperature, top_k, top_p10>>)[3]

NoReq == [method |-> "none", max_len |-> 0, beam_size |-> 0, length_penalty |-> <<0, 1>>,
          temperature |-> 1, top_k |-> NoTopK, top_p10 |-> 10,
          via |-> "none", input_text |-> NoText, use_context |-> FALSE,
          history0 |-> <<>>, src |-> <<>>]

GreedyReq(m) == [NoReq EXCEPT !.method = "greedy", !.max_len = m]

BeamReq(m, b, pen) ==
    [NoReq EXCEPT !.method = "beam", !.max_len = m, !.beam_size = b, !.length_penalty = pen]

SampleReq(m, sp) ==
    [NoReq EXCEPT !.method = "sample", !.max_len = m, !.temperature = sp[1],
                  !.top_k = sp[2], !.top_p10 = sp[3]]

GenRequests ==
    {GreedyReq(m) : m \in 1..MaxLen}
    \cup {BeamReq(m, b, pen) : m \in 1..MaxLen, b \in BeamSizes, pen \in Penalties}
    \cup {SampleReq(m, sp) : m \in 1..MaxLen, sp \in SampleParams}

\* a model whose logits for a prefix depend on the call that asks for them
RevealsAnything(prefix, lg) == TRUE

\* the decoder is called on prefix and gives lg: a prefix seen before gives
\* the logits it gave before
Reveals(prefix, lg) == prefix \in DOMAIN oracle => oracle[prefix] = lg

GenIdle ==
    /\ req = NoReq
    /\ pc = "idle"
    /\ tgt = <<>>
    /\ beams = <<>>
    /\ finished = <<>>
    /\ steps = 0
    /\ result = <<>>
    /\ oracle = <<>>
    /\ encoder_runs = 0
    /\ decoder_runs = 0

MaskIdle ==
    /\ mask_size = 0
    /\ mask = <<>>

\* generator.py:41-43, 72-76, 131-132: the encoder runs, the target is bos
BeginDecoding(r) ==
    /\ req' = r
    /\ pc' = "running"
    /\ tgt' = IF r.method = "beam" THEN <<>> ELSE <<bos_idx>>
    /\ beams' = IF r.method = "beam" THEN << [seq |-> <<bos_idx>>, score |-> 0] >> ELSE <<>>
    /\ finished' = <<>>
    /\ steps' = 0
    /\ result' = <<>>
    /\ oracle' = <<>>
    /\ encoder_runs' = 1
    /\ decoder_runs' = 0
    /\ mask_size' = 0
    /\ mask' = <<>>

\* a module of another class than TransformerModel that has an encoder, a
\* decoder and an output_projection, and whose decoder accepts every call;
\* a module is in training mode when built
AnyModel == [cls |-> "object", training |-> TRUE]

\* self.model.decoder(tgt, memory, src_mask, tgt_mask) (generator.py:47) of
\* a TransformerModel raises RuntimeError in its first DecoderLayer
\* (transformer.py:86-91): the self-attention cannot expand the 2-D mask of
\* a target of two or more positions (attention.py:65-72), and the
\* cross-attention views the projected keys and values of the memory with
\* the length of the query (attention.py:55-57), which fails unless the
\* source and the target have the same length.  A decoder without layers
\* (transformer.py:198-201) has no attention.  On a source and a target of
\* one position each the call does not raise, but its output is NaN, the
\* mask of size 1 leaving no key to attend to; no call is made on such a
\* source here.
DecoderRaises(m, src_len, tgt_len) ==
    /\ m.cls = "TransformerModel"
    /\ m.config.num_decoder_layers >= 1
    /\ \/ ApplyMask(GenerateSquareSubsequentMask(tgt_len), tgt_len, 1, tgt_len).status
            = "error"
       \/ src_len # tgt_len

\* the sources a call is made on: bos, a token, eos
GenSources == { <<1, 5, 2>> }

\* a call of greedy_decode, beam_search or sample on a model and a source
GenCall ==
    /\ pc = "idle"
    /\ \E r \in GenRequests, src \in GenSources :
        BeginDecoding([r EXCEPT !.via = "generator", !.src = src])
    /\ UNCHANGED <<tokVars, ctxVars>>

\* the decoder call of one iteration on a target of length n
DecoderCall(n, calls) ==
    /\ decoder_runs' = decoder_runs + calls
    /\ mask_size' = n
    /\ mask' = GenerateSquareSubsequentMask(n)

\* tgt = torch.cat([tgt, next_token]); break on eos; return after the loop
AppendToken(next) ==
    LET ntgt == Append(tgt, next)
        stop == EndsInEos(ntgt) \/ RangeDone(steps + 1, req.max_len)
    IN /\ tgt' = ntgt
       /\ steps' = steps + 1
       /\ pc' = IF stop THEN ReturnStatus(ntgt) ELSE "running"
       /\ result' = IF stop THEN Tail(ntgt) ELSE result

\* one iteration of greedy_decode (generator.py:45-55)
GreedyStep ==
    /\ pc = "running" /\ req.method = "greedy"
    /\ IF DecoderRaises(model, Len(req.src), Len(tgt))
       THEN /\ pc' = "error"
            /\ DecoderCall(Len(tgt), 1)
            /\ UNCHANGED <<tgt, steps, result, oracle>>
       ELSE \E lg \in LogitSet :
            /\ Reveals(tgt, lg)
            /\ oracle' = (tgt :> lg) @@ oracle
            /\ DecoderCall(Len(tgt), 1)
            /\ AppendToken(GreedyNext(lg))
    /\ UNCHANGED <<req, beams, finished, encoder_runs, tokVars, ctxVars>>

\* one iteration of beam_search (generator.py:78-113)
BeamStep ==
    /\ pc = "running" /\ req.method = "beam"
    /\ LET open == OpenBeams(beams) IN
       IF open # {} /\ DecoderRaises(model, Len(req.src), Len(beams[1].seq))
       THEN \* the decoder call of the first open beam raises
            /\ pc' = "error"
            /\ DecoderCall(Len(beams[1].seq), 1)
            /\ UNCHANGED <<beams, finished, steps, result, oracle>>
       ELSE
       \E lgOf \in [open -> LogitSet] :
        /\ \A pre \in open : Reveals(pre, lgOf[pre])
        /\ oracle' = lgOf @@ oracle
        /\ IF open # {} /\ req.beam_size > Cardinality(Tokens)
           THEN \* torch.topk raises: k is out of range
                /\ pc' = "error"
                /\ DecoderCall(Len(beams[1].seq), 1)
                /\ UNCHANGED <<beams, finished, steps, result>>
           ELSE \E e \in ExpandBeams(beams, lgOf, req.beam_size) :
                \E fin \in {finished \o e.fin},
                   kept \in {KeepTop(e.cands, req.beam_size, req.length_penalty)} :
                   /\ finished' = fin
                   /\ IF e.cands = <<>>
                      THEN \* break
                           /\ beams' = beams
                           /\ steps' = steps
                           /\ pc' = ReturnStatus(beams[1].seq)
                           /\ result' = BeamResult(fin, beams, req.length_penalty)
                           /\ UNCHANGED <<decoder_runs, mask_size, mask>>
                      ELSE /\ beams' = kept
                           /\ steps' = steps + 1
                           /\ DecoderCall(Len(beams[1].seq), Cardinality(open))
                           /\ IF RangeDone(steps + 1, req.max_len)
                              THEN /\ pc' = ReturnStatus(kept[1].seq)
                                   /\ result' = BeamResult(fin, kept, req.length_penalty)
                              ELSE /\ pc' = "running"
                                   /\ result' = result
    /\ UNCHANGED <<req, tgt, encoder_runs, tokVars, ctxVars>>

\* one iteration of sample (generator.py:134-168)
SampleStep ==
    /\ pc = "running" /\ req.method = "sample"
    /\ IF DecoderRaises(model, Len(req.src), Len(tgt))
       THEN /\ pc' = "error"
            /\ DecoderCall(Len(tgt), 1)
            /\ UNCHANGED <<tgt, steps, result, oracle>>
       ELSE \E lg \in LogitSet :
            /\ Reveals(tgt, lg)
            /\ oracle' = (tgt :> lg) @@ oracle
            /\ DecoderCall(Len(tgt), 1)
            /\ IF SampleRaises(req.temperature, req.top_k)
               THEN /\ pc' = "error"
                    /\ UNCHANGED <<tgt, steps, result>>
               ELSE \E next \in SupportOf(lg, req.temperature, req.top_k, req.top_p10) :
                        AppendToken(next)
    /\ UNCHANGED <<req, beams, finished, encoder_runs, tokVars, ctxVars>>

DecodeStep == GreedyStep \/ BeamStep \/ SampleStep

\* the call is over, by return or by exception: its locals are gone and
\* the generator is ready for the next call
GenReturn ==
    /\ pc \in {"done", "error"} /\ req.via = "generator"
    /\ req' = NoReq
    /\ pc' = "idle"
    /\ tgt' = <<>>
    /\ beams' = <<>>
    /\ finished' = <<>>
    /\ steps' = 0
    /\ result' = <<>>
    /\ oracle' = <<>>
    /\ encoder_runs' = 0
    /\ decoder_runs' = 0
    /\ mask_size' = 0
    /\ mask' = <<>>
    /\ UNCHANGED <<tokVars, ctxVars>>


(***************************************************************************)
(* ContextManager (src/inference/context_manager.py)                       *)
(***************************************************************************)

\* the defaults of ContextManager.__init__ and of get_context
DefaultMaxContextLength == 10
DefaultMaxContextTokens == 400

UserLabel == <<"U", "s", "e", "r", ":">>
AssistantLabel == <<"A", "s", "s", "i", "s", "t", "a", "n", "t", ":">>

\* f"User: {turn['user']}\nAssistant: {turn['assistant']}"
TurnText(turn) ==
    UserLabel \o <<" ">> \o turn.user \o <<"\n">> \o AssistantLabel \o <<" ">> \o turn.assistant

\* f"User: {current_input}\nAssistant:"
Prompt(current_input) == UserLabel \o <<" ">> \o current_input \o <<"\n">> \o AssistantLabel

\* deque(maxlen).append: a full deque drops its oldest entry
DequeAppend(hist, turn, maxlen) ==
    IF maxlen = 0 THEN <<>>
    ELSE IF Len(hist) >= maxlen THEN SubSeq(hist, Len(hist) - maxlen + 2, Len(hist)) \o <<turn>>
    ELSE Append(hist, turn)

\* a deque that keeps the first maxlen entries of the list it is built from
DequeOfFirst(history, maxlen) ==
    IF Len(history) <= maxlen THEN history ELSE SubSeq(history, 1, maxlen)

\* deque(history, maxlen): the last maxlen entries
DequeOf(history, maxlen) ==
    IF Len(history) <= maxlen THEN history
    ELSE SubSeq(history, Len(history) - maxlen + 1, Len(history))

\* a loop that skips a turn that does not fit and goes on to the older ones
RECURSIVE ContextLoopSkips(_, _, _, _, _, _, _, _)
ContextLoopSkips(hist, k, parts, total_tokens, max_context_tokens, cache, mrg, v) ==
    IF k = 0 THEN [parts |-> parts, cache |-> cache]
    ELSE LET e == Encode(TurnText(hist[k]), FALSE, cache, mrg, v)
         IN IF total_tokens + Len(e.ids) > max_context_tokens
            THEN ContextLoopSkips(hist, k - 1, parts, total_tokens, max_context_tokens,
                                  e.cache, mrg, v)
            ELSE ContextLoopSkips(hist, k - 1, <<TurnText(hist[k])>> \o parts,
                                  total_tokens + Len(e.ids), max_context_tokens,
                                  e.cache, mrg, v)

\* the loop of get_context (context_manager.py:51-59) over the reversed
\* history, hist[k] being the turn looked at; the tokenizer is its
\* _apply_bpe cache, its merges and its vocab
RECURSIVE ContextLoop(_, _, _, _, _, _, _, _)
ContextLoop(hist, k, parts, total_tokens, max_context_tokens, cache, mrg, v) ==
    IF k = 0 THEN [parts |-> parts, cache |-> cache]
    ELSE LET e == Encode(TurnText(hist[k]), FALSE, cache, mrg, v)
         IN IF total_tokens + Len(e.ids) > max_context_tokens
            THEN [parts |-> parts, cache |-> e.cache]
            ELSE ContextLoop(hist, k - 1, <<TurnText(hist[k])>> \o parts,
                             total_tokens + Len(e.ids), max_context_tokens,
                             e.cache, mrg, v)

\* get_context(current_input, tokenizer, max_context_tokens): the string
\* returned, the number of turns in it, and the tokenizer's cache afterwards
GetContext(hist, current_input, max_context_tokens, cache, mrg, v) ==
    LET e0 == Encode(current_input, FALSE, cache, mrg, v)
        loop == ContextLoop(hist, Len(hist), <<>>, Len(e0.ids), max_context_tokens,
                            e0.cache, mrg, v)
    IN [text |-> IF loop.parts # <<>>
                 THEN Join(loop.parts, <<"\n", "\n">>) \o <<"\n", "\n">> \o Prompt(current_input)
                 ELSE Prompt(current_input),
        included |-> Len(loop.parts),
        cache |-> loop.cache]

\* the ContextManager as a state machine
ContextLengths == {1, 2}

\* what the users say and what the assistant answers
CtxInputs == { <<"h", "i">>, <<"a">> }
CtxResponses == { <<"a">>, <<>> }
CtxTurns == { [user |-> u, assistant |-> a] : u \in CtxInputs, a \in CtxResponses }

\* the budgets get_context is called with; 23 has room for the input "a"
\* and the turn ("a", "") but not for the turn ("hi", "a")
ContextBudgets == {0, 23, 25, 50, DefaultMaxContextTokens}

\* the lists set_history is called with
CtxHistories ==
    {<<>>} \cup {<<t>> : t \in {[user |-> <<"h", "i">>, assistant |-> <<"a">>]}}
           \cup {<<t, t, t>> : t \in {[user |-> <<"a">>, assistant |-> <<>>]}}
           \cup {<< [user |-> <<"h", "i">>, assistant |-> <<"a">>],
                    [user |-> <<"a">>, assistant |-> <<>>],
                    [user |-> <<"a">>, assistant |-> <<"a">>] >>}

\* the last call: its arguments (current_input and max_context_tokens of
\* get_context, the turn of add_turn, the list of set_history) and what it
\* returned (out and included for get_context, the list for get_history)
NoCtxOp == [op |-> "none", current_input |-> NoText, max_context_tokens |-> 0,
            out |-> <<>>, included |-> 0, history |-> <<>>,
            turn |-> [user |-> <<>>, assistant |-> <<>>]]

\* ContextManager.__init__ with the default max_context_length
CtxIdle ==
    /\ max_context_length = DefaultMaxContextLength
    /\ conversation_history = <<>>
    /\ ctx_op = NoCtxOp

\* ContextManager.__init__(max_context_length)
CtxInit ==
    /\ max_context_length \in ContextLengths
    /\ conversation_history = <<>>
    /\ ctx_op = NoCtxOp

\* add_turn(user_input, assistant_response)
CtxAddTurn ==
    /\ \E turn \in CtxTurns :
        /\ conversation_history' = DequeAppend(conversation_history, turn, max_context_length)
        /\ ctx_op' = [NoCtxOp EXCEPT !.op = "add_turn", !.turn = turn]
    /\ UNCHANGED <<max_context_length, tokVars>>

\* get_context(current_input, tokenizer, max_context_tokens)
CtxGetContext ==
    /\ \E current_input \in CtxInputs, max_context_tokens \in ContextBudgets :
        \E g \in {GetContext(conversation_history, current_input, max_context_tokens,
                             splits, merges, vocab)} :
            /\ splits' = g.cache
            /\ ctx_op' = [NoCtxOp EXCEPT !.op = "get_context",
                                         !.current_input = current_input,
                                         !.max_context_tokens = max_context_tokens,
                                         !.out = g.text, !.included = g.included]
    /\ UNCHANGED <<max_context_length, conversation_history, vocab_size, special_tokens,
                   word_freqs, merges, vocab, inverse_vocab, tok_op>>

\* clear()
CtxClear ==
    /\ conversation_history' = <<>>
    /\ ctx_op' = [NoCtxOp EXCEPT !.op = "clear"]
    /\ UNCHANGED <<max_context_length, tokVars>>

\* get_history()
CtxGetHistory ==
    /\ ctx_op' = [NoCtxOp EXCEPT !.op = "get_history", !.history = conversation_history]
    /\ UNCHANGED <<max_context_length, conversation_history, tokVars>>

\* set_history(history)
CtxSetHistory ==
    /\ \E history \in CtxHistories :
        /\ conversation_history' = DequeOf(history, max_context_length)
        /\ ctx_op' = [NoCtxOp EXCEPT !.op = "set_history", !.history = history]
    /\ UNCHANGED <<max_context_length, tokVars>>

\* the tokenizer of the generator: GenTok, its _apply_bpe cache empty
GenTokLoaded ==
    /\ vocab_size = 6
    /\ special_tokens = DefaultSpecialTokens
    /\ word_freqs = <<>>
    /\ splits = <<>>
    /\ merges = GenTok.merges
    /\ vocab = GenTok.vocab
    /\ inverse_vocab = GenTok.inverse_vocab
    /\ tok_op = NoOp


(***************************************************************************)
(* InferenceEngine (src/inference/inference_engine.py): generate, chat     *)
(* (generate with method 'sample' and use_context True) and clear_context  *)
(* on one engine, a request at a time.                                     *)
(***************************************************************************)

\* the default beam_size of generate
DefaultBeamSize == 5

\* the max_len the engine builds its generator with
EngineMaxLens == {1}

\* the turns an engine takes before clear_context
MaxTurns == 2

\* method and generation_kwargs of the requests
EngineRequests ==
    {GreedyReq(m) : m \in EngineMaxLens}
    \cup {BeamReq(m, DefaultBeamSize, <<3, 5>>) : m \in EngineMaxLens}
    \cup {SampleReq(m, sp) : m \in EngineMaxLens, sp \in SampleParams}

\* inference_engine.py:72-76: the text that is encoded, and the tokenizer's
\* cache afterwards
ContextText(input_text, use_context) ==
    IF use_context /\ Len(conversation_history) > 0
    THEN GetContext(conversation_history, input_text, DefaultMaxContextTokens,
                    splits, merges, vocab)
    ELSE [text |-> Prompt(input_text), included |-> 0, cache |-> splits]

\* generate(input_text, method, use_context, **generation_kwargs) up to the
\* call of the generator (inference_engine.py:72-97): nothing looks at the
\* generation parameters before the encoder runs
EngineCall ==
    /\ pc = "idle"
    /\ \E input_text \in CtxInputs, use_context \in BOOLEAN, r \in EngineRequests :
        /\ use_context => Len(conversation_history) < MaxTurns
        /\ \E c \in {ContextText(input_text, use_context)} :
           \E e \in {Encode(c.text, TRUE, c.cache, merges, vocab)} :
            /\ splits' = e.cache
            /\ BeginDecoding([r EXCEPT !.via = "engine", !.input_text = input_text,
                                       !.use_context = use_context,
                                       !.history0 = conversation_history,
                                       !.src = e.ids])
    /\ UNCHANGED <<vocab_size, special_tokens, word_freqs, merges, vocab, inverse_vocab,
                   tok_op, ctxVars>>

\* inference_engine.py:99-106: the generator has returned; decode, add_turn,
\* return
EngineReturn ==
    /\ pc = "done" /\ req.via = "engine"
    /\ \E d \in {Decode(result, TRUE, inverse_vocab, special_tokens)} :
        conversation_history' =
            IF req.use_context
            THEN DequeAppend(conversation_history,
                             [user |-> req.input_text, assistant |-> d.text],
                             max_context_length)
            ELSE conversation_history
    /\ pc' = "returned"
    /\ UNCHANGED <<req, tgt, beams, finished, steps, result, oracle, encoder_runs,
                   decoder_runs, max_context_length, ctx_op, tokVars, maskVars>>

\* a generate that records the turn before it calls the generator: the
\* turn of a call that raised stays in the history, with no response
EngineRaiseAddsTurn ==
    /\ pc = "error" /\ req.via = "engine"
    /\ pc' = "raised"
    /\ conversation_history' =
        IF req.use_context
        THEN DequeAppend(conversation_history,
                         [user |-> req.input_text, assistant |-> <<>>],
                         max_context_length)
        ELSE conversation_history
    /\ UNCHANGED <<req, tgt, beams, finished, steps, result, oracle, encoder_runs,
                   decoder_runs, max_context_length, ctx_op, tokVars, maskVars>>

\* the generator has raised: the exception leaves generate, no turn is added
EngineRaise ==
    /\ pc = "error" /\ req.via = "engine"
    /\ pc' = "raised"
    /\ UNCHANGED <<req, tgt, beams, finished, steps, result, oracle, encoder_runs,
                   decoder_runs, ctxVars, tokVars, maskVars>>

\* the caller has its answer or its exception: the engine is ready for the
\* next request
EngineRelease ==
    /\ pc \in {"returned", "raised"}
    /\ req' = NoReq
    /\ pc' = "idle"
    /\ tgt' = <<>>
    /\ beams' = <<>>
    /\ finished' = <<>>
    /\ steps' = 0
    /\ result' = <<>>
    /\ oracle' = <<>>
    /\ encoder_runs' = 0
    /\ decoder_runs' = 0
    /\ mask_size' = 0
    /\ mask' = <<>>
    /\ UNCHANGED <<tokVars, ctxVars>>

\* clear_context()
EngineClear ==
    /\ pc = "idle"
    /\ conversation_history' = <<>>
    /\ ctx_op' = [NoCtxOp EXCEPT !.op = "clear"]
    /\ UNCHANGED <<max_context_length, tokVars, genVars, maskVars>>

\* the lists set_context_history is called with
EngineHistories ==
    { <<>>,
      << [user |-> <<"h", "i">>, assistant |-> <<"a">>] >>,
      << [user |-> <<"a">>, assistant |-> <<"a">>] >>,
      << [user |-> <<"a">>, assistant |-> <<>>],
         [user |-> <<"h", "i">>, assistant |-> <<"a">>] >> }

\* set_context_history(history) (inference_engine.py:129-131), which hands
\* the list to ContextManager.set_history
EngineSetHistory ==
    /\ pc = "idle"
    /\ \E history \in EngineHistories :
        /\ conversation_history' = DequeOf(history, max_context_length)
        /\ ctx_op' = [NoCtxOp EXCEPT !.op = "set_history", !.history = history]
    /\ UNCHANGED <<max_context_length, tokVars, genVars, maskVars>>

(***************************************************************************)
(* TransformerModel (src/model/model.py): construction, save and load.     *)
(*                                                                         *)
(* A model object is a record of its hyperparameters and of its            *)
(* state_dict, which gives every parameter and buffer its shape and its    *)
(* data.  The data of a parameter drawn at random is the seed of the       *)
(* construction that drew it, so that two constructions give different     *)
(* parameters of the same shapes where the values are drawn.               *)
(***************************************************************************)

\* the default max_len of TransformerModel.__init__
DefaultModelMaxLen == 1024

NoModel == [cls |-> "none"]

\* the arguments of TransformerModel.__init__
ModelConfig(sv, tv, d, ne, nd, h, ff, ml) ==
    [src_vocab_size |-> sv, tgt_vocab_size |-> tv, d_model |-> d,
     num_encoder_layers |-> ne, num_decoder_layers |-> nd, num_heads |-> h,
     d_ff |-> ff, max_len |-> ml]

\* PositionalEncoding.__init__ (embeddings.py:51-57): pe[:, 1::2] has
\* d_model // 2 columns and cos(position * div_term) has (d_model + 1) // 2,
\* so the assignment raises for an odd d_model
PositionalEncodingError(d_model) ==
    IF d_model % 2 = 1 THEN "RuntimeError" ELSE "none"

\* MultiHeadAttention.__init__ (attention.py:22):
\* assert d_model % num_heads == 0
AttentionError(d_model, num_heads) ==
    IF num_heads = 0 THEN "ZeroDivisionError"
    ELSE IF d_model % num_heads # 0 THEN "AssertionError"
    ELSE "none"

\* Encoder.__init__ / Decoder.__init__ (transformer.py:114-123, 159-168):
\* the embeddings are built first, then one layer, with its attention, for
\* each of range(num_layers)
StackError(d_model, num_layers, num_heads) ==
    IF PositionalEncodingError(d_model) # "none" THEN PositionalEncodingError(d_model)
    ELSE IF num_layers >= 1 THEN AttentionError(d_model, num_heads)
    ELSE "none"

\* the names of the parameters and buffers: <<stack, layer, name>>, the
\* layer being -1 for what belongs to no layer
StateDictNames(c) ==
    {<<s, -1, n>> : s \in {"encoder", "decoder"},
                    n \in {"token_embedding.embedding.weight", "positional_encoding.pe",
                           "norm.weight"}}
    \cup {<<"encoder", k, n>> : k \in 0..(c.num_encoder_layers - 1),
                               n \in {"self_attn.W_q.weight", "feed_forward.linear1.weight"}}
    \cup {<<"decoder", k, n>> : k \in 0..(c.num_decoder_layers - 1),
                               n \in {"self_attn.W_q.weight", "cross_attn.W_q.weight",
                                      "feed_forward.linear1.weight"}}
    \cup {<<"output_projection", -1, "weight">>}

TensorShape(c, name) ==
    CASE name[3] = "token_embedding.embedding.weight" ->
            <<IF name[1] = "encoder" THEN c.src_vocab_size ELSE c.tgt_vocab_size, c.d_model>>
      [] name[3] = "positional_encoding.pe" -> <<1, c.max_len, c.d_model>>
      [] name[3] = "norm.weight" -> <<c.d_model>>
      [] name[3] \in {"self_attn.W_q.weight", "cross_attn.W_q.weight"} ->
            <<c.d_model, c.d_model>>
      [] name[3] = "feed_forward.linear1.weight" -> <<c.d_ff, c.d_model>>
      [] OTHER -> <<c.tgt_vocab_size, c.d_model>>

\* the sinusoids of pe are a function of its shape and nn.LayerNorm sets its
\* weight to ones, which _init_parameters (model.py:62-66) leaves alone, as
\* it has one dimension; every other tensor is drawn at construction
TensorData(name, seed) ==
    CASE name[3] = "positional_encoding.pe" -> "sinusoid"
      [] name[3] = "norm.weight" -> "ones"
      [] OTHER -> seed

StateDict(c, seed) ==
    [name \in StateDictNames(c) |->
        [shape |-> TensorShape(c, name), data |-> TensorData(name, seed),
         updates |-> <<>>]]

\* TransformerModel.__init__ (model.py:25-60): the encoder, the decoder, the
\* output projection; a module is in training mode when built
ModelConstruct(c, seed) ==
    IF StackError(c.d_model, c.num_encoder_layers, c.num_heads) # "none"
    THEN Raised(StackError(c.d_model, c.num_encoder_layers, c.num_heads), NoModel)
    ELSE IF StackError(c.d_model, c.num_decoder_layers, c.num_heads) # "none"
    THEN Raised(StackError(c.d_model, c.num_decoder_layers, c.num_heads), NoModel)
    ELSE ReturnedObject([cls |-> "TransformerModel", config |-> c,
                         state_dict |-> StateDict(c, seed), training |-> TRUE])

\* save(path) (model.py:129-142): the record handed to torch.save.  It has
\* no max_len; num_heads and d_ff are read from self.encoder.layers[0],
\* which raises IndexError on an encoder without layers, before anything is
\* written.
ModelSave(m) ==
    IF m.config.num_encoder_layers = 0 THEN Raised("IndexError", MissingFile)
    ELSE ReturnedObject(
            JsonFile([model_state_dict |-> m.state_dict,
                      src_vocab_size |-> m.config.src_vocab_size,
                      tgt_vocab_size |-> m.config.tgt_vocab_size,
                      d_model |-> m.config.d_model,
                      config |-> [num_encoder_layers |-> m.config.num_encoder_layers,
                                  num_decoder_layers |-> m.config.num_decoder_layers,
                                  num_heads |-> m.config.num_heads,
                                  d_ff |-> m.config.d_ff]]))

\* load_state_dict (strict): the names must be those of the model, and every
\* tensor must have the shape of the model's
StateDictFits(m, sd) ==
    /\ DOMAIN sd = DOMAIN m.state_dict
    /\ \A name \in DOMAIN sd : sd[name].shape = m.state_dict[name].shape

\* load(path) (model.py:144-163): torch.load, cls(...) without max_len, so
\* with its default, load_state_dict, eval
ModelLoad(file, seed) ==
    IF file.kind = "missing" THEN Raised("FileNotFoundError", NoModel)
    ELSE IF file.kind = "garbage" THEN Raised("UnpicklingError", NoModel)
    ELSE IF ~({"config", "src_vocab_size", "tgt_vocab_size", "d_model"}
                \subseteq DOMAIN file.data)
    THEN Raised("KeyError", NoModel)
    ELSE LET ck == file.data
             built == ModelConstruct(
                        ModelConfig(ck.src_vocab_size, ck.tgt_vocab_size, ck.d_model,
                                    ck.config.num_encoder_layers,
                                    ck.config.num_decoder_layers,
                                    ck.config.num_heads, ck.config.d_ff,
                                    DefaultModelMaxLen),
                        seed)
         IN IF built.status # "ok" THEN built
            ELSE IF "model_state_dict" \notin DOMAIN ck
            THEN Raised("KeyError", built.partial)
            ELSE IF ~StateDictFits(built.partial, ck.model_state_dict)
            THEN Raised("RuntimeError", built.partial)
            ELSE ReturnedObject([built.partial EXCEPT !.state_dict = ck.model_state_dict,
                                                      !.training = FALSE])

\* the configurations the model is built with
ModelConfigs ==
    { ModelConfig(6, 6, d, ne, nd, h, 8, ml) :
        d \in {4, 5, 6}, ne \in {0, 1}, nd \in {0, 1}, h \in {2, 4},
        ml \in {16, DefaultModelMaxLen} }

NoModelOp == [op |-> "none", status |-> "none", error |-> "none", out |-> NoModel,
              value |-> 0, files |-> <<>>,
              config |-> ModelConfig(0, 0, 0, 0, 0, 0, 0, 0)]

\* model = TransformerModel(**config)
ModelNew ==
    /\ \E c \in ModelConfigs :
       \E b \in {ModelConstruct(c, "seed 1")} :
        /\ model' = ValueOf(b, model)
        /\ model_op' = [NoModelOp EXCEPT !.op = "construct", !.status = b.status,
                                         !.error = b.error, !.out = ValueOf(b, NoModel),
                                         !.config = c]
    /\ UNCHANGED checkpoint

\* model.save(path)
ModelSaveCall ==
    /\ model # NoModel
    /\ \E s \in {ModelSave(model)} :
        /\ checkpoint' = ValueOf(s, checkpoint)
        /\ model_op' = [NoModelOp EXCEPT !.op = "save", !.status = s.status,
                                         !.error = s.error]
    /\ UNCHANGED model

\* TransformerModel.load(path): the object it returns is in model_op.out,
\* the model that was saved stays in model
ModelLoadCall ==
    /\ \E l \in {ModelLoad(checkpoint, "seed 2")} :
        model_op' = [NoModelOp EXCEPT !.op = "load", !.status = l.status,
                                      !.error = l.error, !.out = ValueOf(l, NoModel)]
    /\ UNCHANGED <<model, checkpoint>>

\* checkpoints that are missing, hold other bytes, lack a key, or hold the
\* state_dict of a model of another width
DamagedCheckpoints ==
    { MissingFile, GarbageFile,
      JsonFile([src_vocab_size |-> 6, tgt_vocab_size |-> 6, d_model |-> 4]),
      JsonFile([src_vocab_size |-> 6, tgt_vocab_size |-> 6, d_model |-> 4,
                config |-> [num_encoder_layers |-> 1, num_decoder_layers |-> 1,
                            num_heads |-> 2, d_ff |-> 8]]),
      JsonFile([src_vocab_size |-> 6, tgt_vocab_size |-> 6, d_model |-> 4,
                config |-> [num_encoder_layers |-> 1, num_decoder_layers |-> 1,
                            num_heads |-> 2, d_ff |-> 8],
                model_state_dict |->
                    StateDict(ModelConfig(6, 6, 6, 1, 1, 2, 8, DefaultModelMaxLen), "seed 1")]) }


(***************************************************************************)
(* Trainer (src/training/trainer.py): the training loop on a model and the *)
(* training checkpoints.                                                   *)
(*                                                                         *)
(* The Trainer holds the model object it was given: what it does to        *)
(* self.model it does to model.  The state of the optimizer is the batches *)
(* it has made a step on, the state of the scheduler the metrics it was    *)
(* stepped with, and a tensor carries the batches of the steps that have   *)
(* updated it.  A loss is a number the network computes; it is an input    *)
(* here.                                                                   *)
(***************************************************************************)

NoTrainer == [cls |-> "none"]

\* the bound on the epochs a Trainer runs and on the steps of its optimizer
MaxEpochs == 2

\* Trainer.__init__ (trainer.py:40-71)
TrainerObject ==
    [cls |-> "Trainer", optimizer_state |-> <<>>, scheduler_state |-> <<>>,
     train_losses |-> <<>>, val_losses |-> <<>>]

\* a batch of the loader: src of src_len columns, tgt_input of tgt_len
Batch(s, t) == [src_len |-> s, tgt_len |-> t]

\* the loaders: no batch; a batch of ConversationDataset (dataset.py:56-58,
\* src and tgt_input padded to one length); that batch and then one of two
\* lengths
Loaders ==
    { <<>>, <<Batch(2, 2)>>, <<Batch(2, 2), Batch(3, 2)>> }

\* the values of a validation loss on a loader that is not empty, which
\* train compares, and the value of a training loss, which decides nothing
LossValues == {1, 2}
TrainLossValues == {1}

\* self.model(src, tgt_input, src_mask, tgt_mask) (model.py:101-122) with
\* the masks of generate_mask: the cross-attention of a decoder layer views
\* the keys of the encoder output with the length of the query
\* (attention.py:55-57), which raises unless src and tgt_input have one
\* length; a decoder without layers never looks at the encoder output
ForwardRaises(m, b) ==
    m.config.num_decoder_layers >= 1 /\ b.src_len # b.tgt_len

\* the tensors optimizer.step() changes after loss.backward(): the
\* parameters the output depends on.  pe is a buffer, and without a decoder
\* layer the output does not depend on the encoder, whose parameters then
\* have no gradient
Updated(m, name) ==
    /\ name[3] # "positional_encoding.pe"
    /\ name[1] = "encoder" => m.config.num_decoder_layers >= 1

\* zero_grad, forward, backward, clip, optimizer.step() (trainer.py:98-114)
OptimizerStep(m, b) ==
    [m EXCEPT !.state_dict =
        [name \in DOMAIN m.state_dict |->
            IF Updated(m, name)
            THEN [m.state_dict[name] EXCEPT !.updates = Append(@, b)]
            ELSE m.state_dict[name]]]

\* the loop over the batches (trainer.py:89-120, 141-160); validate runs
\* under no_grad and makes no step
RECURSIVE RunBatches(_, _, _, _)
RunBatches(m, opt, loader, grad) ==
    IF loader = <<>>
    THEN [model |-> m, optimizer_state |-> opt, error |-> "none"]
    ELSE IF ForwardRaises(m, Head(loader))
    THEN [model |-> m, optimizer_state |-> opt, error |-> "RuntimeError"]
    ELSE IF grad
    THEN RunBatches(OptimizerStep(m, Head(loader)), Append(opt, Head(loader)),
                    Tail(loader), grad)
    ELSE RunBatches(m, opt, Tail(loader), grad)

\* avg_loss = total_loss / num_batches if num_batches > 0 else 0.0
AvgLoss(loader, loss) == IF loader = <<>> THEN 0 ELSE loss

\* train_epoch(train_loader) (trainer.py:73-124): self.model.train(), the
\* batches, train_losses.append(avg_loss)
TrainEpoch(m, tr, loader, loss) ==
    LET run == RunBatches([m EXCEPT !.training = TRUE], tr.optimizer_state, loader, TRUE)
    IN [model |-> run.model,
        trainer |-> [tr EXCEPT !.optimizer_state = run.optimizer_state,
                               !.train_losses = IF run.error = "none"
                                                THEN Append(@, AvgLoss(loader, loss))
                                                ELSE @],
        error |-> run.error,
        value |-> AvgLoss(loader, loss)]

\* validate(val_loader) (trainer.py:126-164): self.model.eval(), the
\* batches, val_losses.append(avg_loss)
Validate(m, tr, loader, loss) ==
    LET run == RunBatches([m EXCEPT !.training = FALSE], tr.optimizer_state, loader, FALSE)
    IN [model |-> run.model,
        trainer |-> [tr EXCEPT !.val_losses = IF run.error = "none"
                                              THEN Append(@, AvgLoss(loader, loss))
                                              ELSE @],
        error |-> run.error,
        value |-> AvgLoss(loader, loss)]

\* save_checkpoint(path, epoch) (trainer.py:221-231): the record handed to
\* torch.save.  It has none of the keys src_vocab_size, tgt_vocab_size,
\* d_model and config that TransformerModel.load reads.
SaveCheckpoint(m, tr, epoch) ==
    JsonFile([epoch |-> epoch,
              model_state_dict |-> m.state_dict,
              optimizer_state_dict |-> tr.optimizer_state,
              scheduler_state_dict |-> tr.scheduler_state,
              train_losses |-> tr.train_losses,
              val_losses |-> tr.val_losses])

\* the training checkpoint of another run, of a model with a decoder layer
\* and the default max_len: what train leaves as best_model.pt
OtherCheckpoint ==
    SaveCheckpoint(
        ModelConstruct(ModelConfig(6, 6, 4, 1, 1, 2, 8, DefaultModelMaxLen), "seed 2").partial,
        TrainerObject, 1)

\* Module.load_state_dict copies every tensor of sd that the module has
\* under the same name with the same shape, and only then raises for the
\* names and shapes that do not fit
LoadStateDict(m, sd) ==
    [m EXCEPT !.state_dict =
        [name \in DOMAIN m.state_dict |->
            IF name \in DOMAIN sd /\ sd[name].shape = m.state_dict[name].shape
            THEN sd[name]
            ELSE m.state_dict[name]]]

\* load_checkpoint(path) (trainer.py:233-241): each statement acts on the
\* trainer before the next one can raise
LoadCheckpoint(m, tr, file) ==
    LET unchanged(e) == [model |-> m, trainer |-> tr, error |-> e, value |-> 0]
    IN IF file.kind = "missing" THEN unchanged("FileNotFoundError")
       ELSE IF file.kind = "garbage" THEN unchanged("UnpicklingError")
       ELSE IF "model_state_dict" \notin DOMAIN file.data THEN unchanged("KeyError")
       ELSE LET ck == file.data
                lm == LoadStateDict(m, ck.model_state_dict)
            IN IF ~StateDictFits(m, ck.model_state_dict)
               THEN [model |-> lm, trainer |-> tr, error |-> "RuntimeError", value |-> 0]
               ELSE IF "optimizer_state_dict" \notin DOMAIN ck
               THEN [model |-> lm, trainer |-> tr, error |-> "KeyError", value |-> 0]
               ELSE IF "scheduler_state_dict" \notin DOMAIN ck
               THEN [model |-> lm,
                     trainer |-> [tr EXCEPT !.optimizer_state = ck.optimizer_state_dict],
                     error |-> "KeyError", value |-> 0]
               ELSE LET lt == [tr EXCEPT
                                !.optimizer_state = ck.optimizer_state_dict,
                                !.scheduler_state = ck.scheduler_state_dict,
                                !.train_losses = IF "train_losses" \in DOMAIN ck
                                                 THEN ck.train_losses ELSE <<>>,
                                !.val_losses = IF "val_losses" \in DOMAIN ck
                                               THEN ck.val_losses ELSE <<>>]
                    IN IF "epoch" \notin DOMAIN ck
                       THEN [model |-> lm, trainer |-> lt, error |-> "KeyError", value |-> 0]
                       ELSE [model |-> lm, trainer |-> lt, error |-> "none",
                             value |-> ck.epoch]

\* self.scheduler.step(metric)
SchedulerStep(tr, metric) == [tr EXCEPT !.scheduler_state = Append(@, metric)]

\* the epochs epoch..num_epochs of train (trainer.py:187-217).  st is the
\* model, the trainer, the file best_model.pt, the files
\* checkpoint_epoch_N.pt written so far and the best validation loss, if
\* there is one; val is <<>> for val_loader = None and <<loader>> otherwise;
\* tl and vl give the losses of each epoch.
RECURSIVE TrainerEpochs(_, _, _, _, _, _, _, _)
TrainerEpochs(st, epoch, num_epochs, train_loader, val, save_every, tl, vl) ==
    IF epoch > num_epochs THEN st
    ELSE
    LET te == TrainEpoch(st.model, st.trainer, train_loader, tl[epoch])
    IN IF te.error # "none"
       THEN [st EXCEPT !.model = te.model, !.trainer = te.trainer, !.error = te.error]
       ELSE
       LET va == Validate(te.model, te.trainer, val[1], vl[epoch])
           better == val # <<>> /\ (st.best_val_loss = <<>> \/ va.value < st.best_val_loss[1])
           m2 == IF val = <<>> THEN te.model ELSE va.model
           tr2 == IF val = <<>> THEN SchedulerStep(te.trainer, te.value)
                  ELSE SchedulerStep(va.trainer, va.value)
           periodic == epoch % save_every = 0
       IN IF val # <<>> /\ va.error # "none"
          THEN [st EXCEPT !.model = va.model, !.trainer = va.trainer, !.error = va.error]
          ELSE TrainerEpochs(
                [st EXCEPT
                    !.model = m2,
                    !.trainer = tr2,
                    !.best_model = IF better THEN SaveCheckpoint(m2, tr2, epoch) ELSE @,
                    !.best_val_loss = IF better THEN <<va.value>> ELSE @,
                    !.files = IF periodic THEN Append(@, SaveCheckpoint(m2, tr2, epoch))
                              ELSE @],
                epoch + 1, num_epochs, train_loader, val, save_every, tl, vl)

\* train(train_loader, num_epochs, val_loader, checkpoint_dir, save_every)
\* (trainer.py:166-219): best_val_loss starts at infinity
TrainModel(m, tr, best_model, num_epochs, train_loader, val, save_every, tl, vl) ==
    TrainerEpochs([model |-> m, trainer |-> tr, best_model |-> best_model, files |-> <<>>,
               best_val_loss |-> <<>>, error |-> "none"],
              1, num_epochs, train_loader, val, save_every, tl, vl)

\* the calls are bounded: the epochs trained, the epochs validated and the
\* steps of the optimizer
WithinEpochs(tr, train_epochs, val_epochs, opt_steps) ==
    /\ Len(tr.train_losses) + train_epochs <= MaxEpochs
    /\ Len(tr.val_losses) + val_epochs <= MaxEpochs
    /\ Len(tr.optimizer_state) + opt_steps <= MaxEpochs

StatusOf(error) == IF error = "none" THEN "ok" ELSE "error"

\* trainer.train_epoch(train_loader)
TrainerTrainEpoch ==
    /\ trainer # NoTrainer
    /\ \E loader \in Loaders, loss \in TrainLossValues :
        /\ WithinEpochs(trainer, 1, 0, Len(loader))
        /\ loader = <<>> => loss = 1
        /\ LET te == TrainEpoch(model, trainer, loader, loss)
           IN /\ model' = te.model
              /\ trainer' = te.trainer
              /\ model_op' = [NoModelOp EXCEPT !.op = "train_epoch",
                                               !.status = StatusOf(te.error),
                                               !.error = te.error,
                                               !.value = IF te.error = "none"
                                                         THEN te.value ELSE 0]
    /\ UNCHANGED checkpoint

\* trainer.validate(val_loader)
TrainerValidate ==
    /\ trainer # NoTrainer
    /\ \E loader \in Loaders, loss \in LossValues :
        /\ WithinEpochs(trainer, 0, 1, 0)
        /\ loader = <<>> => loss = 1
        /\ LET va == Validate(model, trainer, loader, loss)
           IN /\ model' = va.model
              /\ trainer' = va.trainer
              /\ model_op' = [NoModelOp EXCEPT !.op = "validate",
                                               !.status = StatusOf(va.error),
                                               !.error = va.error,
                                               !.value = IF va.error = "none"
                                                         THEN va.value ELSE 0]
    /\ UNCHANGED checkpoint

\* trainer.save_checkpoint(path, epoch), on the path of the checkpoint
TrainerSaveCheckpoint ==
    /\ trainer # NoTrainer
    /\ \E epoch \in 1..MaxEpochs :
        checkpoint' = SaveCheckpoint(model, trainer, epoch)
    /\ model_op' = [NoModelOp EXCEPT !.op = "save_checkpoint", !.status = "ok"]
    /\ UNCHANGED <<model, trainer>>

\* trainer.load_checkpoint(path), on the path of the checkpoint
TrainerLoadCheckpoint ==
    /\ trainer # NoTrainer
    /\ LET lc == LoadCheckpoint(model, trainer, checkpoint)
       IN /\ model' = lc.model
          /\ trainer' = lc.trainer
          /\ model_op' = [NoModelOp EXCEPT !.op = "load_checkpoint",
                                           !.status = StatusOf(lc.error),
                                           !.error = lc.error,
                                           !.value = lc.value]
    /\ UNCHANGED checkpoint

\* the values of save_every: every epoch, and the default (trainer.py:169)
SaveEvery == {1, 5}

\* trainer.train(...) with the directory of the checkpoint as
\* checkpoint_dir, so that best_model.pt is the checkpoint
TrainerTrain ==
    /\ trainer # NoTrainer
    /\ \E num_epochs \in 1..MaxEpochs, train_loader \in Loaders,
          val \in {<<>>} \cup {<<l>> : l \in Loaders}, save_every \in SaveEvery,
          tl \in [1..MaxEpochs -> TrainLossValues], vl \in [1..MaxEpochs -> LossValues] :
        /\ WithinEpochs(trainer, num_epochs, IF val = <<>> THEN 0 ELSE num_epochs,
                        num_epochs * Len(train_loader))
        /\ \A e \in 1..MaxEpochs :
            /\ (e > num_epochs \/ train_loader = <<>>) => tl[e] = 1
            /\ (e > num_epochs \/ val \in {<<>>, << <<>> >>}) => vl[e] = 1
        /\ LET tn == TrainModel(model, trainer, checkpoint, num_epochs, train_loader, val,
                                save_every, tl, vl)
           IN /\ model' = tn.model
              /\ trainer' = tn.trainer
              /\ checkpoint' = tn.best_model
              /\ model_op' = [NoModelOp EXCEPT !.op = "train",
                                               !.status = StatusOf(tn.error),
                                               !.error = tn.error,
                                               !.files = tn.files]


(***************************************************************************)
(* InferenceEngine.__init__ (src/inference/inference_engine.py:34-53) and  *)
(* the start-up of the server (src/api/server.py:23-46)                    *)
(***************************************************************************)

\* the default max_len of InferenceEngine.__init__
DefaultEngineMaxLen == 512

NoObject == [cls |-> "none"]

\* nn.Module.eval(): the module leaves training mode
Eval(m) == [m EXCEPT !.training = FALSE]

\* TextGenerator.__init__ (generator.py:20-28): self.model is the model
\* handed in, which self.model.eval() puts in evaluation mode
GeneratorObject(m, t, max_len) ==
    [cls |-> "TextGenerator", model |-> Eval(m), max_len |-> max_len,
     pad_idx |-> VocabGet(t.vocab, PAD, 0),
     bos_idx |-> VocabGet(t.vocab, BOS, 1),
     eos_idx |-> VocabGet(t.vocab, EOS, 2)]

\* ContextManager() (context_manager.py:17-21)
ContextManagerObject ==
    [cls |-> "ContextManager", max_context_length |-> DefaultMaxContextLength,
     conversation_history |-> <<>>]

\* InferenceEngine(model_path, tokenizer_path): the attributes are assigned
\* in the order tokenizer, model, generator, context_manager; an exception
\* of a load leaves __init__ with the attributes assigned so far
EngineInit(tokfile, ckpt, max_len) ==
    LET blank == [cls |-> "InferenceEngine", tokenizer |-> NoTokenizer, model |-> NoModel,
                  generator |-> NoObject, context_manager |-> NoObject]
        tl == TokenizerLoad(tokfile)
        ml == ModelLoad(ckpt, "seed 2")
        withTok == [blank EXCEPT !.tokenizer = tl.partial]
        gen == GeneratorObject(ml.partial, tl.partial, max_len)
    IN IF tl.status # "ok" THEN Raised(tl.error, blank)
       ELSE IF ml.status # "ok" THEN Raised(ml.error, withTok)
       ELSE ReturnedObject(
                [withTok EXCEPT !.model = gen.model,
                                !.generator = gen,
                                !.context_manager = ContextManagerObject])

\* a start-up that binds the global to whatever __init__ had built
LifespanKeepsPartial(tokfile, ckpt) ==
    EngineInit(tokfile, ckpt, DefaultEngineMaxLen).partial

\* lifespan (server.py:34-46): the value of the global inference_engine
\* after the try statement
LifespanEngine(tokfile, ckpt) ==
    IF ckpt.kind # "missing" /\ tokfile.kind # "missing"
    THEN ValueOf(EngineInit(tokfile, ckpt, DefaultEngineMaxLen), NoObject)
    ELSE NoObject

\* the start-up of the server
Lifespan ==
    /\ model_op.op # "lifespan"
    /\ inference_engine' = LifespanEngine(tok_file, checkpoint)
    /\ model_op' = [NoModelOp EXCEPT
                        !.op = "lifespan",
                        !.status = IF checkpoint.kind = "missing" \/ tok_file.kind = "missing"
                                   THEN "skipped"
                                   ELSE EngineInit(tok_file, checkpoint,
                                                   DefaultEngineMaxLen).status]
    /\ UNCHANGED <<tok_file, checkpoint, model>>

\* the files a server may find at its start-up
ServerTokFiles ==
    DamagedFiles
    \cup {TokenizerSave(TokenizerObject(6, DefaultSpecialTokens, <<>>, <<>>, GenTok.merges,
                                        GenTok.vocab, GenTok.inverse_vocab))}

SavedCheckpoints ==
    { ModelSave(ModelConstruct(c, "seed 1").partial).partial :
        c \in {x \in ModelConfigs :
                  /\ ModelConstruct(x, "seed 1").status = "ok"
                  /\ x.num_encoder_layers >= 1} }

\* the checkpoint the server finds: damaged, written by save, or written by
\* a Trainer
ServerCheckpoints == DamagedCheckpoints \cup SavedCheckpoints \cup {OtherCheckpoint}

StoreIdle ==
    /\ tok_file = MissingFile
    /\ checkpoint = MissingFile
    /\ model = NoModel
    /\ model_op = NoModelOp
    /\ inference_engine = NoObject


(***************************************************************************)
(* Concurrent calls on one TextGenerator (src/inference/generator.py)      *)
(*                                                                         *)
(* greedy_decode and beam_search keep their target, beams and finished     *)
(* list in local variables; the generator's attributes (model, tokenizer,  *)
(* max_len, the three ids) are only read.  A call is therefore a record of *)
(* its locals, and a step of a call is one iteration of its loop on them.  *)
(* The model is one function from prefixes to logits for all the calls.    *)
(***************************************************************************)

ThreadIds == {1, 2}

\* locals of a call that is not running; interleaved tells that another
\* call made a step between two steps of this one
NoThread == [req |-> NoReq, pc |-> "idle", tgt |-> <<>>, beams |-> <<>>,
             finished |-> <<>>, steps |-> 0, result |-> <<>>, interleaved |-> FALSE]

\* generator.py:41-43, 72-76
StartThread(r) ==
    [NoThread EXCEPT !.req = r, !.pc = "running",
                     !.tgt = IF r.method = "beam" THEN <<>> ELSE <<bos_idx>>,
                     !.beams = IF r.method = "beam"
                               THEN << [seq |-> <<bos_idx>>, score |-> 0] >> ELSE <<>>]

\* one iteration of greedy_decode (generator.py:45-55) on the locals t
GreedyIter(t, lg) ==
    LET ntgt == Append(t.tgt, GreedyNext(lg))
        stop == EndsInEos(ntgt) \/ RangeDone(t.steps + 1, t.req.max_len)
    IN [t EXCEPT !.tgt = ntgt, !.steps = t.steps + 1,
                 !.pc = IF stop THEN ReturnStatus(ntgt) ELSE "running",
                 !.result = IF stop THEN Tail(ntgt) ELSE t.result]

\* one iteration of beam_search (generator.py:78-113) on the locals t, for
\* a beam_size within the vocabulary: the locals it may leave
BeamIter(t, lgOf) ==
    { IF e.cands = <<>>
      THEN [t EXCEPT !.finished = t.finished \o e.fin,
                     !.pc = ReturnStatus(t.beams[1].seq),
                     !.result = BeamResult(t.finished \o e.fin, t.beams,
                                           t.req.length_penalty)]
      ELSE [t EXCEPT !.finished = t.finished \o e.fin,
                     !.beams = KeepTop(e.cands, t.req.beam_size, t.req.length_penalty),
                     !.steps = t.steps + 1,
                     !.pc = IF RangeDone(t.steps + 1, t.req.max_len)
                            THEN ReturnStatus(t.beams[1].seq) ELSE "running",
                     !.result = IF RangeDone(t.steps + 1, t.req.max_len)
                                THEN BeamResult(t.finished \o e.fin,
                                                KeepTop(e.cands, t.req.beam_size,
                                                        t.req.length_penalty),
                                                t.req.length_penalty)
                                ELSE t.result] :
      e \in ExpandBeams(t.beams, lgOf, t.req.beam_size) }

\* the calls made concurrently on a generator built with max_len m
ConcRequests(m) == {GreedyReq(m)} \cup {BeamReq(m, b, <<3, 5>>) : b \in BeamSizes}

ConcIdle ==
    /\ threads = [i \in ThreadIds |-> NoThread]
    /\ gen_max_len = 0

\* the max_len values the shared generator is built with
GenMaxLens == {1, 2}

\* TextGenerator(model, tokenizer, device, max_len), no call made yet
ConcInit ==
    /\ threads = [i \in ThreadIds |-> NoThread]
    /\ gen_max_len \in GenMaxLens

\* a step of the call i falls between two steps of every call that is in
\* its loop
Interleave(ts, i) ==
    [j \in ThreadIds |->
        IF j # i /\ ts[j].pc = "running" /\ ts[j].steps >= 1
        THEN [ts[j] EXCEPT !.interleaved = TRUE] ELSE ts[j]]

\* a request calls greedy_decode or beam_search
ThreadCall(i) ==
    /\ threads[i].pc = "idle"
    /\ \E r \in ConcRequests(gen_max_len), src \in GenSources :
        threads' = [threads EXCEPT ![i] = StartThread([r EXCEPT !.via = "generator",
                                                               !.src = src])]
    /\ UNCHANGED <<oracle, gen_max_len>>

\* the call i makes one iteration of greedy_decode
ThreadGreedyStep(i) ==
    /\ threads[i].pc = "running" /\ threads[i].req.method = "greedy"
    /\ IF DecoderRaises(model, Len(threads[i].req.src), Len(threads[i].tgt))
       THEN /\ threads' = [Interleave(threads, i) EXCEPT ![i].pc = "error"]
            /\ UNCHANGED oracle
       ELSE \E lg \in LogitSet :
            /\ Reveals(threads[i].tgt, lg)
            /\ oracle' = (threads[i].tgt :> lg) @@ oracle
            /\ threads' = [Interleave(threads, i) EXCEPT ![i] = GreedyIter(threads[i], lg)]
    /\ UNCHANGED gen_max_len

\* the call i makes one iteration of beam_search
ThreadBeamStep(i) ==
    /\ threads[i].pc = "running" /\ threads[i].req.method = "beam"
    /\ IF /\ OpenBeams(threads[i].beams) # {}
          /\ DecoderRaises(model, Len(threads[i].req.src), Len(threads[i].beams[1].seq))
       THEN /\ threads' = [Interleave(threads, i) EXCEPT ![i].pc = "error"]
            /\ UNCHANGED oracle
       ELSE \E lgOf \in [OpenBeams(threads[i].beams) -> LogitSet] :
            /\ \A pre \in DOMAIN lgOf : Reveals(pre, lgOf[pre])
            /\ oracle' = lgOf @@ oracle
            /\ \E n \in BeamIter(threads[i], lgOf) :
                threads' = [Interleave(threads, i) EXCEPT ![i] = n]
    /\ UNCHANGED gen_max_len

\* the call i returns or has raised: its locals are gone
ThreadReturn(i) ==
    /\ threads[i].pc \in {"done", "error"}
    /\ threads' = [threads EXCEPT ![i] = NoThread]
    /\ UNCHANGED <<oracle, gen_max_len>>


(***************************************************************************)
(* TransformerModel.generate_mask (src/model/model.py:68-99)               *)
(*                                                                         *)
(* A batch is a sequence of rows of token ids, all of one length; a mask   *)
(* is a sequence (of sequences) of booleans of the same shape.             *)
(***************************************************************************)

\* the default pad_idx of generate_mask
DefaultPadIdx == 0

\* a lower triangle without its diagonal
TrilStrict(n) == [i \in 1..n |-> [j \in 1..n |-> j < i]]

\* torch.tril(torch.ones(n, n)).bool(): the entries on and below the
\* diagonal
Tril(n) == [i \in 1..n |-> [j \in 1..n |-> j <= i]]

\* x != pad, elementwise
NotPad(x, pad) ==
    [b \in 1..Len(x) |-> [j \in 1..Len(x[b]) |-> x[b][j] # pad]]

\* p.unsqueeze(1) & c.unsqueeze(0) for p of shape [batch, n] and c of shape
\* [n, n]: both are broadcast to [batch, n, n]
BroadcastAnd(p, c) ==
    [b \in 1..Len(p) |-> [i \in 1..Len(c) |-> [j \in 1..Len(c) |-> p[b][j] /\ c[i][j]]]]

\* generate_mask(src, tgt, pad_idx): the four masks it returns
GenerateMask(src_ids, tgt_ids, pad) ==
    LET tgt_len == Len(tgt_ids[1])
        src_padding_mask == NotPad(src_ids, pad)
        tgt_padding_mask == NotPad(tgt_ids, pad)
        tgt_causal_mask == Tril(tgt_len)
    IN [src_mask |-> src_padding_mask,
        tgt_mask |-> BroadcastAnd(tgt_padding_mask, tgt_causal_mask),
        src_padding_mask |-> src_padding_mask,
        tgt_padding_mask |-> tgt_padding_mask]

\* the batches generate_mask is called on: one or two rows of one or two
\* tokens, and one row of three
MaskTokens == {0, 1, 2}
MaskBatches ==
    UNION { [1..b -> [1..n -> MaskTokens]] : b \in {1, 2}, n \in {1, 2} }
    \cup { << <<1, 2, 0>> >>, << <<0, 1, 1>> >> }

NoMaskOp == [op |-> "none", src |-> <<>>, tgt |-> <<>>, pad_idx |-> 0,
             out |-> [src_mask |-> <<>>, tgt_mask |-> <<>>,
                      src_padding_mask |-> <<>>, tgt_padding_mask |-> <<>>]]

\* src_mask, tgt_mask, _, _ = model.generate_mask(src, tgt, pad_idx), on
\* batches of the same number of rows
GenerateMaskCall ==
    \E src_ids \in { << <<1, 0>> >>, << <<2, 1>>, <<0, 0>> >> },
       tgt_ids \in MaskBatches, pad \in {DefaultPadIdx, 1} :
        /\ Len(src_ids) = Len(tgt_ids)
        /\ gm_op' = [op |-> "generate_mask", src |-> src_ids, tgt |-> tgt_ids, pad_idx |-> pad,
                     out |-> GenerateMask(src_ids, tgt_ids, pad)]


(***************************************************************************)
(* Scheduler (src/assistant/scheduler.py)                                  *)
(*                                                                         *)
(* An event is a record of its id and its description; its datetime and    *)
(* the time of its creation play no part in add_event and delete_event     *)
(* beyond being stored.  calendar_file is what calendar.json holds.        *)
(***************************************************************************)

\* the most events the calendar is filled with
MaxEvents == 2

EventDescriptions == {"a", "b"}

NoSchedOp == [op |-> "none", ok |-> FALSE, event_id |-> 0, removed |-> 0]

\* scheduler.py:61: 'id': len(self.events) + 1
NextEventId(evs) == Len(evs) + 1

\* [e for e in self.events if e['id'] != event_id]
RECURSIVE WithoutId(_, _)
WithoutId(evs, event_id) ==
    IF evs = <<>> THEN <<>>
    ELSE IF Head(evs).id # event_id THEN <<Head(evs)>> \o WithoutId(Tail(evs), event_id)
    ELSE WithoutId(Tail(evs), event_id)

\* what _save_events may do (scheduler.py:38-41): write the file, be
\* refused at open, which leaves the file as it was, or fail after open
\* has truncated the file, which leaves it empty
SaveOutcomes == {"written", "refused", "truncated"}

SaveEvents(evs, file, save) ==
    CASE save = "written" -> JsonFile(evs)
      [] save = "refused" -> file
      [] OTHER -> GarbageFile

\* Scheduler(data_dir): the events are those of the file, none without it
\* or when it is no JSON
SchedulerNew ==
    /\ events' = IF calendar_file.kind = "json" THEN calendar_file.data ELSE <<>>
    /\ sched_op' = [NoSchedOp EXCEPT !.op = "init", !.ok = TRUE]
    /\ UNCHANGED calendar_file

\* add_event(description, time_str, date_str) (scheduler.py:43-72):
\* _parse_datetime falls back to now on whatever it cannot parse; the event
\* is appended before _save_events writes the file, which the file system
\* may refuse or cut short
AddEvent ==
    /\ Len(events) < MaxEvents
    /\ \E description \in EventDescriptions, save \in SaveOutcomes :
        /\ events' = Append(events, [id |-> NextEventId(events),
                                     description |-> description])
        /\ calendar_file' = SaveEvents(events', calendar_file, save)
        /\ sched_op' = [NoSchedOp EXCEPT !.op = "add_event", !.ok = (save = "written"),
                                         !.event_id = NextEventId(events)]

\* delete_event(event_id) (scheduler.py:136-156)
DeleteEvent ==
    \E event_id \in 1..(MaxEvents + 1), save \in SaveOutcomes :
        /\ events' = WithoutId(events, event_id)
        /\ calendar_file' = IF Len(events') < Len(events)
                            THEN SaveEvents(events', calendar_file, save)
                            ELSE calendar_file
        /\ sched_op' = [NoSchedOp EXCEPT !.op = "delete_event",
                                         !.ok = (Len(events') < Len(events)
                                                 /\ save = "written"),
                                         !.event_id = event_id,
                                         !.removed = Len(events) - Len(events')]


(***************************************************************************)
(* SystemCommandExecutor (src/assistant/system_commands.py)                *)
(***************************************************************************)

\* system_commands.py:22-25, the default allowed_commands
AllowedCommands ==
    << <<"l", "s">>, <<"d", "i", "r">>, <<"p", "w", "d">>, <<"c", "d">>,
       <<"e", "c", "h", "o">>, <<"c", "a", "t">>, <<"t", "y", "p", "e">>,
       <<"d", "a", "t", "e">>, <<"t", "i", "m", "e">>,
       <<"w", "h", "o", "a", "m", "i">>,
       <<"h", "o", "s", "t", "n", "a", "m", "e">>,
       <<"u", "n", "a", "m", "e">> >>

\* system_commands.py:28-32
BlockedCommands ==
    << <<"r", "m">>, <<"d", "e", "l">>, <<"f", "o", "r", "m", "a", "t">>,
       <<"f", "d", "i", "s", "k">>, <<"m", "k", "f", "s">>, <<"d", "d">>,
       <<"s", "h", "u", "t", "d", "o", "w", "n">>,
       <<"r", "e", "b", "o", "o", "t">>, <<"r", "m", "d", "i", "r">>,
       <<"r", "d">>, <<"r", "d", " ", "/", "s">>, <<"s", "u", "d", "o">>,
       <<"s", "u">>, <<"c", "h", "m", "o", "d">>, <<"c", "h", "o", "w", "n">> >>

\* the grave accent (U+0060), written by its name: a string of the module
\* cannot hold the character itself
Backtick == "grave"

\* system_commands.py:57
DangerousOps ==
    << <<"&", "&">>, <<"|", "|">>, <<";">>, <<"|">>, <<">">>, <<"<">>,
       <<Backtick>>, <<"$", "(">> >>

\* sub in s
Contains(sub, s) ==
    \E i \in 0..(Len(s) - Len(sub)) : SubSeq(s, i + 1, i + Len(sub)) = sub

\* for x in list: if s.startswith(x): return ...: the entry the loop
\* returns at, <<>> when it runs to its end
FirstPrefixOf(list, s) ==
    IF \E i \in 1..Len(list) : IsPrefix(list[i], s)
    THEN list[CHOOSE i \in 1..Len(list) :
                IsPrefix(list[i], s) /\ \A j \in 1..(i - 1) : ~IsPrefix(list[j], s)]
    ELSE <<>>

\* for op in list: if op in s: return ...
FirstContainedIn(list, s) ==
    IF \E i \in 1..Len(list) : Contains(list[i], s)
    THEN list[CHOOSE i \in 1..Len(list) :
                Contains(list[i], s) /\ \A j \in 1..(i - 1) : ~Contains(list[j], s)]
    ELSE <<>>

\* is_safe(command) (system_commands.py:34-62): the three loops in their
\* order, each returning at its first hit
IsSafe(command) ==
    LET command_lower == Strip(LowerStr(command))
        blocked == FirstPrefixOf(BlockedCommands, command_lower)
        allowed == FirstPrefixOf(AllowedCommands, command_lower)
        op == FirstContainedIn(DangerousOps, command)
    IN IF blocked # <<>>
       THEN [safe |-> FALSE, reason |-> "not allowed for safety", item |-> blocked]
       ELSE IF allowed # <<>>
       THEN [safe |-> TRUE, reason |-> "Command is safe", item |-> <<>>]
       ELSE IF op # <<>>
       THEN [safe |-> FALSE, reason |-> "dangerous operator", item |-> op]
       ELSE [safe |-> FALSE, reason |-> "Command not in allowed list", item |-> <<>>]

\* what subprocess.run may do: return with code 0, return with another
\* code, run into the timeout, raise before a process runs (no such
\* program), or raise after the process ran (its output is no UTF-8)
RunOutcomes == {"returncode 0", "returncode other", "TimeoutExpired", "OSError",
                "UnicodeDecodeError"}

\* execute(command, timeout) (system_commands.py:64-104), run being the
\* outcome of subprocess.run
Execute(command, run) ==
    LET s == IsSafe(command)
    IN IF ~s.safe
       THEN [safe |-> FALSE, ok |-> FALSE, message |-> "Command blocked",
             reason |-> s.reason, started |-> FALSE]
       ELSE [safe |-> TRUE, ok |-> (run = "returncode 0"),
             message |-> CASE run = "returncode 0" -> "Command executed successfully"
                           [] run = "returncode other" -> "Command failed"
                           [] run = "TimeoutExpired" -> "Command timed out"
                           [] OTHER -> "Error executing command",
             reason |-> s.reason, started |-> (run # "OSError")]

\* the commands the executor is given
Commands ==
    { <<"l", "s">>, <<"p", "w", "d">>,
      <<"U", "n", "a", "m", "e", " ", "-", "a">>, <<"r", "m", " ", "x">>,
      <<" ", "s", "U", " ", "x">>, <<"r", "m", "d", "i", "r", " ", "x">>,
      <<"e", "c", "h", "o", " ", "a", ";", "r", "m", " ", "x">>,
      <<"e", "c", "h", "o", " ", "a", " ", "&", "&", " ", "r", "m", " ", "x">>,
      <<"c", "a", "t", " ", "a", "|", "s", "h">>,
      <<"e", "c", "h", "o", " ", Backtick, "r", "m", " ", "x", Backtick>>,
      <<"e", "c", "h", "o", " ", "$", "(", "r", "m", " ", "x", ")">>,
      <<"l", "s", " ", ">", " ", "x">>, <<"l", "s", " ", "<", " ", "x">>,
      <<"c", "d", " ", "x", " ", "|", "|", " ", "r", "m", " ", "x">>,
      <<"f", "o", "o">>, <<"f", "o", "o", ";", "l", "s">>,
      <<"d", "a", "t", "e">>, <<"w", "h", "o", "a", "m", "i">>,
      <<"s", "u", "d", "o", " ", "l", "s">>, <<"c", "a", "t", " ", "x">> }

NoCmdOp == [op |-> "none", command |-> <<>>, shell |-> FALSE, safe |-> FALSE,
            ok |-> FALSE, message |-> "none", reason |-> "none", started |-> FALSE]

\* executor.execute(command) on Windows (shell=True) or elsewhere
ExecuteCall ==
    \E command \in Commands, shell \in BOOLEAN, run \in RunOutcomes :
    \E x \in {Execute(command, run)} :
        cmd_op' = [op |-> "execute", command |-> command, shell |-> shell,
                   safe |-> x.safe, ok |-> x.ok, message |-> x.message,
                   reason |-> x.reason, started |-> x.started]

\* nothing was done yet with the mask function, the scheduler and the
\* executor
ToolsIdle ==
    /\ gm_op = NoMaskOp
    /\ events = <<>>
    /\ calendar_file = MissingFile
    /\ sched_op = NoSchedOp
    /\ cmd_op = NoCmdOp

\* and there is no Trainer
AuxIdle == ToolsIdle /\ trainer = NoTrainer


(***************************************************************************)
(* Specifications                                                          *)
(***************************************************************************)

\* the variables of the generator but the model it calls
genLocals == <<req, pc, tgt, beams, finished, steps, result, encoder_runs, decoder_runs>>

\* the tokenizer alone
InitTok == TokInit /\ GenIdle /\ MaskIdle /\ CtxIdle /\ StoreIdle /\ ConcIdle /\ AuxIdle

NextTok ==
    \/ TokTrain /\ UNCHANGED <<auxVars, genVars, ctxVars, maskVars, storeVars, concVars>>
    \/ TokEncode /\ UNCHANGED <<auxVars, genVars, ctxVars, maskVars, storeVars, concVars>>
    \/ TokDecodeEncoded /\ UNCHANGED <<auxVars, genVars, ctxVars, maskVars, storeVars, concVars>>
    \/ TokDecode /\ UNCHANGED <<auxVars, genVars, ctxVars, maskVars, storeVars, concVars>>

SpecTok == InitTok /\ [][NextTok]_vars

\* the tokenizer and its file: one tokenizer, trained and trained again,
\* used, saved and loaded
FileCorpora == {
    <<<<"a", "b", " ", "a", "b", " ", "b">>>>,
    <<<<"A", "b">>>>,
    <<<<"a", "b", " ", "b", "a">>>> }

FileTexts == { <<"a", "b">>, <<" ", "b", " ", " ", "a", "b", "\n">> }

TokFileInit ==
    /\ vocab_size = 30
    /\ special_tokens = DefaultSpecialTokens
    /\ word_freqs = <<>>
    /\ splits = <<>>
    /\ merges = <<>>
    /\ vocab = <<>>
    /\ inverse_vocab = <<>>
    /\ tok_op = NoOp

TokFileTrain == \E texts \in FileCorpora : TrainCall(texts)

TokFileEncode == \E text \in FileTexts, a \in BOOLEAN : EncodeCall(text, a)

InitTokFile == TokFileInit /\ GenIdle /\ MaskIdle /\ CtxIdle /\ StoreIdle /\ ConcIdle /\ AuxIdle

NextTokFile ==
    \/ TokFileTrain /\ UNCHANGED <<auxVars, genVars, ctxVars, maskVars, storeVars, concVars>>
    \/ TokFileEncode /\ UNCHANGED <<auxVars, genVars, ctxVars, maskVars, storeVars, concVars>>
    \/ TokDecodeEncoded /\ UNCHANGED <<auxVars, genVars, ctxVars, maskVars, storeVars, concVars>>
    \/ TokSave /\ UNCHANGED <<auxVars, genVars, ctxVars, maskVars, checkpoint, model, model_op,
                              inference_engine, concVars>>
    \/ TokLoad /\ UNCHANGED <<auxVars, genVars, ctxVars, maskVars, checkpoint, model, model_op,
                              inference_engine, concVars>>

SpecTokFile == InitTokFile /\ [][NextTokFile]_vars

\* the generator alone, called on any model
GenModels ==
    { AnyModel,
      ModelConstruct(ModelConfig(6, 6, 4, 1, 1, 2, 8, DefaultModelMaxLen), "seed 1").partial }

\* TextGenerator(model, tokenizer) on any of GenModels: the model is the one
\* of the generator, in evaluation mode
GeneratorInit ==
    /\ tok_file = MissingFile
    /\ checkpoint = MissingFile
    /\ model \in {GeneratorObject(m, GenTok, MaxLen).model : m \in GenModels}
    /\ model_op = NoModelOp
    /\ inference_engine = NoObject

InitGen == GenTokLoaded /\ GenIdle /\ MaskIdle /\ CtxIdle /\ GeneratorInit /\ ConcIdle /\ AuxIdle

NextGen ==
    \/ GenCall /\ UNCHANGED <<auxVars, storeVars, concVars>>
    \/ GreedyStep /\ UNCHANGED <<auxVars, storeVars, concVars>>
    \/ BeamStep /\ UNCHANGED <<auxVars, storeVars, concVars>>
    \/ SampleStep /\ UNCHANGED <<auxVars, storeVars, concVars>>
    \/ GenReturn /\ UNCHANGED <<auxVars, storeVars, concVars>>

SpecGen == InitGen /\ [][NextGen]_vars

\* the context manager with the tokenizer of the generator
InitCtx == GenTokLoaded /\ GenIdle /\ MaskIdle /\ CtxInit /\ StoreIdle /\ ConcIdle /\ AuxIdle

NextCtx ==
    \/ CtxAddTurn /\ UNCHANGED <<auxVars, genVars, maskVars, storeVars, concVars>>
    \/ CtxGetContext /\ UNCHANGED <<auxVars, genVars, maskVars, storeVars, concVars>>
    \/ CtxClear /\ UNCHANGED <<auxVars, genVars, maskVars, storeVars, concVars>>
    \/ CtxGetHistory /\ UNCHANGED <<auxVars, genVars, maskVars, storeVars, concVars>>
    \/ CtxSetHistory /\ UNCHANGED <<auxVars, genVars, maskVars, storeVars, concVars>>

SpecCtx == InitCtx /\ [][NextCtx]_vars

\* the engine
\* the checkpoints an engine is built on: those saved from a model with no
\* decoder layer and from one with a decoder layer
EngineCheckpoints ==
    { ModelSave(ModelConstruct(ModelConfig(6, 6, 4, 1, nd, 2, 8, DefaultModelMaxLen),
                               "seed 1").partial).partial : nd \in {0, 1} }

\* InferenceEngine(model_path, tokenizer_path) (inference_engine.py:34-53)
\* on files that load: its model is the one TransformerModel.load returns
EngineLoaded ==
    /\ tok_file = TokenizerSave(TokenizerObject(6, DefaultSpecialTokens, <<>>, <<>>,
                                                GenTok.merges, GenTok.vocab,
                                                GenTok.inverse_vocab))
    /\ checkpoint \in EngineCheckpoints
    /\ model = ModelLoad(checkpoint, "seed 2").partial
    /\ model_op = NoModelOp
    /\ inference_engine = NoObject

InitEngine == GenTokLoaded /\ GenIdle /\ MaskIdle /\ CtxIdle /\ EngineLoaded /\ ConcIdle /\ AuxIdle

NextEngine ==
    \/ EngineCall /\ UNCHANGED <<auxVars, storeVars, concVars>>
    \/ GreedyStep /\ UNCHANGED <<auxVars, storeVars, concVars>>
    \/ BeamStep /\ UNCHANGED <<auxVars, storeVars, concVars>>
    \/ SampleStep /\ UNCHANGED <<auxVars, storeVars, concVars>>
    \/ EngineReturn /\ UNCHANGED <<auxVars, storeVars, concVars>>
    \/ EngineRaise /\ UNCHANGED <<auxVars, storeVars, concVars>>
    \/ EngineRelease /\ UNCHANGED <<auxVars, storeVars, concVars>>
    \/ EngineClear /\ UNCHANGED <<auxVars, storeVars, concVars>>
    \/ EngineSetHistory /\ UNCHANGED <<auxVars, storeVars, concVars>>

SpecEngine == InitEngine /\ [][NextEngine]_vars

\* a call that has begun runs its loop to the end: nothing else runs in the
\* thread that made the call
FairSpecGen == SpecGen /\ WF_vars(DecodeStep /\ UNCHANGED <<auxVars, storeVars, concVars>>)

\* the model: built, saved and loaded
InitModel == GenTokLoaded /\ GenIdle /\ MaskIdle /\ CtxIdle /\ StoreIdle /\ ConcIdle /\ AuxIdle

NextModel ==
    \/ ModelNew /\ UNCHANGED <<auxVars, tokVars, genVars, ctxVars, maskVars, tok_file,
                               inference_engine, concVars>>
    \/ ModelSaveCall /\ UNCHANGED <<auxVars, tokVars, genVars, ctxVars, maskVars, tok_file,
                                    inference_engine, concVars>>
    \/ ModelLoadCall /\ UNCHANGED <<auxVars, tokVars, genVars, ctxVars, maskVars, tok_file,
                                    inference_engine, concVars>>

SpecModel == InitModel /\ [][NextModel]_vars

\* the models a Trainer is made for: one built as src/train.py builds it,
\* with a max_len of its own, one without a decoder layer and one without
\* an encoder layer
TrainerModels ==
    { ModelConstruct(ModelConfig(6, 6, 4, 1, 1, 2, 8, 16), "seed 1").partial,
      ModelConstruct(ModelConfig(6, 6, 4, 1, 0, 2, 8, DefaultModelMaxLen), "seed 1").partial,
      ModelConstruct(ModelConfig(6, 6, 4, 0, 1, 2, 8, DefaultModelMaxLen), "seed 1").partial }

\* trainer = Trainer(model, tokenizer): the model, trained, validated, saved
\* and loaded
InitTrainer ==
    /\ GenTokLoaded /\ GenIdle /\ MaskIdle /\ CtxIdle /\ ConcIdle /\ ToolsIdle
    /\ tok_file = MissingFile
    /\ model \in TrainerModels
    /\ checkpoint \in IF model.config.max_len # DefaultModelMaxLen
                      THEN {MissingFile, OtherCheckpoint}
                      ELSE {MissingFile}
    /\ model_op = NoModelOp
    /\ inference_engine = NoObject
    /\ trainer = TrainerObject

NextTrainer ==
    \/ TrainerTrainEpoch /\ UNCHANGED <<toolVars, tokVars, genVars, ctxVars, maskVars,
                                        tok_file, inference_engine, concVars>>
    \/ TrainerValidate /\ UNCHANGED <<toolVars, tokVars, genVars, ctxVars, maskVars,
                                      tok_file, inference_engine, concVars>>
    \/ TrainerTrain /\ UNCHANGED <<toolVars, tokVars, genVars, ctxVars, maskVars,
                                   tok_file, inference_engine, concVars>>
    \/ TrainerSaveCheckpoint /\ UNCHANGED <<toolVars, tokVars, genVars, ctxVars, maskVars,
                                            tok_file, inference_engine, concVars>>
    \/ TrainerLoadCheckpoint /\ UNCHANGED <<toolVars, tokVars, genVars, ctxVars, maskVars,
                                            tok_file, inference_engine, concVars>>
    \/ ModelSaveCall /\ UNCHANGED <<auxVars, tokVars, genVars, ctxVars, maskVars, tok_file,
                                    inference_engine, concVars>>
    \/ ModelLoadCall /\ UNCHANGED <<auxVars, tokVars, genVars, ctxVars, maskVars, tok_file,
                                    inference_engine, concVars>>

SpecTrainer == InitTrainer /\ [][NextTrainer]_vars

\* the server and the two files it finds at its start-up; the loads are
\* also made on their own
InitServer ==
    /\ GenTokLoaded /\ GenIdle /\ MaskIdle /\ CtxIdle /\ ConcIdle /\ AuxIdle
    /\ tok_file \in ServerTokFiles
    /\ checkpoint \in ServerCheckpoints
    /\ model = NoModel
    /\ model_op = NoModelOp
    /\ inference_engine = NoObject

NextServer ==
    \/ TokLoad /\ UNCHANGED <<auxVars, genVars, ctxVars, maskVars, checkpoint, model, model_op,
                              inference_engine, concVars>>
    \/ ModelLoadCall /\ UNCHANGED <<auxVars, tokVars, genVars, ctxVars, maskVars, tok_file,
                                    inference_engine, concVars>>
    \/ Lifespan /\ UNCHANGED <<auxVars, tokVars, genVars, ctxVars, maskVars, concVars>>

SpecServer == InitServer /\ [][NextServer]_vars

\* two requests on one generator
InitConc == GenTokLoaded /\ GenIdle /\ MaskIdle /\ CtxIdle /\ GeneratorInit /\ ConcInit /\ AuxIdle

NextConc ==
    \/ \E i \in ThreadIds :
        ThreadCall(i) /\ UNCHANGED <<auxVars, tokVars, genLocals, ctxVars, maskVars, storeVars>>
    \/ \E i \in ThreadIds :
        ThreadGreedyStep(i) /\ UNCHANGED <<auxVars, tokVars, genLocals, ctxVars, maskVars, storeVars>>
    \/ \E i \in ThreadIds :
        ThreadBeamStep(i) /\ UNCHANGED <<auxVars, tokVars, genLocals, ctxVars, maskVars, storeVars>>
    \/ \E i \in ThreadIds :
        ThreadReturn(i) /\ UNCHANGED <<auxVars, tokVars, genLocals, ctxVars, maskVars, storeVars>>

SpecConc == InitConc /\ [][NextConc]_vars

\* the mask function alone
InitMask == GenTokLoaded /\ GenIdle /\ MaskIdle /\ CtxIdle /\ StoreIdle /\ ConcIdle /\ AuxIdle

NextMask ==
    \/ GenerateMaskCall /\ UNCHANGED <<tokVars, genVars, ctxVars, maskVars, storeVars,
                                       concVars, events, calendar_file, sched_op, cmd_op,
                                       trainer>>

SpecMask == InitMask /\ [][NextMask]_vars

\* the scheduler alone
InitScheduler == GenTokLoaded /\ GenIdle /\ MaskIdle /\ CtxIdle /\ StoreIdle /\ ConcIdle /\ AuxIdle

NextScheduler ==
    \/ SchedulerNew /\ UNCHANGED <<tokVars, genVars, ctxVars, maskVars, storeVars,
                                   concVars, gm_op, cmd_op, trainer>>
    \/ AddEvent /\ UNCHANGED <<tokVars, genVars, ctxVars, maskVars, storeVars,
                               concVars, gm_op, cmd_op, trainer>>
    \/ DeleteEvent /\ UNCHANGED <<tokVars, genVars, ctxVars, maskVars, storeVars,
                                  concVars, gm_op, cmd_op, trainer>>

SpecScheduler == InitScheduler /\ [][NextScheduler]_vars

\* the command executor alone
InitExecutor == GenTokLoaded /\ GenIdle /\ MaskIdle /\ CtxIdle /\ StoreIdle /\ ConcIdle /\ AuxIdle

NextExecutor ==
    \/ ExecuteCall /\ UNCHANGED <<tokVars, genVars, ctxVars, maskVars, storeVars,
                                  concVars, gm_op, events, calendar_file, sched_op,
                                  trainer>>

SpecExecutor == InitExecutor /\ [][NextExecutor]_vars


(***************************************************************************)
(* Properties of the generator                                             *)
(***************************************************************************)

\* greedy_decode run on the model the oracle has revealed: the sequence it
\* returns, or, where its path leaves the revealed prefixes, the tokens up
\* to that point followed by -1 (no token)
RECURSIVE GreedyRun(_, _, _, _)
GreedyRun(o, t, i, n) ==
    IF t \notin DOMAIN o THEN Append(Tail(t), -1)
    ELSE LET nt == Append(t, GreedyNext(o[t]))
         IN IF EndsInEos(nt) \/ RangeDone(i + 1, n) THEN Tail(nt)
            ELSE GreedyRun(o, nt, i + 1, n)

GreedyDecode(o, max_len) == GreedyRun(o, <<bos_idx>>, 0, max_len)

\* the values w has one largest entry only
UniqueMax(w) == Cardinality({t \in DOMAIN w : w[t] = MaxOf(w, DOMAIN w)}) = 1

\* the parameters of the request are inside their ranges: temperature > 0,
\* 0 <= top_p <= 1, top_k unset or 1 .. vocabulary size, beam_size likewise
ValidRequest(r) ==
    /\ r.method = "sample" =>
        /\ r.temperature > 0
        /\ r.top_p10 >= 0 /\ r.top_p10 <= 10
        /\ r.top_k.set => (r.top_k.k >= 1 /\ r.top_k.k <= Cardinality(Tokens))
    /\ r.method = "beam" => (r.beam_size >= 1 /\ r.beam_size <= Cardinality(Tokens))

Returned == pc = "done" /\ req.method \in {"greedy", "beam", "sample"}

\* C1: for greedy_decode, beam_search and sample, on every model and for
\* every max_len >= 1, the returned sequence (without the bos) has at most
\* max_len tokens.
LengthBound == Returned => Len(result) <= req.max_len

\* beam search has returned max_len tokens, none of them eos
LengthBoundWitness ==
    /\ Returned /\ req.method = "beam" /\ req.beam_size = 2
    /\ req.max_len = MaxLen /\ Len(result) = MaxLen
    /\ \A i \in 1..Len(result) : result[i] # eos_idx

\* C2: every strategy reaches DONE after at most max_len decoding steps,
\* also when the model never produces eos, and then the truncated sequence
\* is a normal result and no error.  On a TransformerModel with a decoder
\* layer the decoder call of the first iteration raises (DecoderRaises), so
\* a call on it ends in an error and never reaches DONE.
Termination ==
    /\ [](ValidRequest(req) =>
            /\ steps <= req.max_len
            /\ pc # "error"
            /\ (Returned /\ ~EndsInEos(<<bos_idx>> \o result))
                    => Len(result) = req.max_len)
    /\ ((pc = "running" /\ ValidRequest(req)) ~> (pc = "done" /\ steps <= req.max_len))

BeamOfOne == Returned /\ req.method = "beam" /\ req.beam_size = 1

\* C3 as the specification states it: for beam_size = 1 and any
\* length_penalty, beam_search returns exactly the sequence greedy_decode
\* returns on the same model, source and max_len.
BeamOneIsGreedy == BeamOfOne => result = GreedyDecode(oracle, req.max_len)

\* C3: for beam_size = 1 and any length_penalty, beam_search returns
\* exactly the sequence greedy_decode returns on the same model, source and
\* max_len, provided the log-probabilities of every step have one largest
\* entry; among tied maxima greedy takes the first (torch.argmax) and beam
\* search the one torch.topk lists first, which is not specified.
BeamOneIsGreedyUntied ==
    (BeamOfOne /\ \A pre \in DOMAIN oracle : UniqueMax(LogSoftmax(oracle[pre])))
        => result = GreedyDecode(oracle, req.max_len)

\* beam search of size 1 with the default penalty has met an eos at its
\* first step, with no tie
BeamOneIsGreedyWitness ==
    /\ BeamOfOne /\ req.length_penalty = <<3, 5>> /\ req.max_len = MaxLen
    /\ \A pre \in DOMAIN oracle : UniqueMax(LogSoftmax(oracle[pre]))
    /\ result = <<eos_idx>>

NucleusOfZero ==
    /\ Returned /\ req.method = "sample"
    /\ req.top_p10 = 0 /\ ~req.top_k.set /\ req.temperature > 0

\* C8 as the specification states it: sample with top_p = 0.0, top_k unset
\* and temperature > 0 returns the sequence greedy_decode returns on the
\* same model and input, whatever the random source yields.
NucleusZeroIsGreedy == NucleusOfZero => result = GreedyDecode(oracle, req.max_len)

\* C8: sample with top_p = 0.0, top_k unset and temperature > 0 returns the
\* sequence greedy_decode returns on the same model and input, whatever the
\* random source yields, provided the probabilities computed at every step
\* (the softmax of logits / temperature) have one largest entry.
NucleusZeroIsGreedyUntied ==
    (NucleusOfZero /\ \A pre \in DOMAIN oracle :
                        UniqueMax(SoftmaxWeights(oracle[pre], req.temperature)))
        => result = GreedyDecode(oracle, req.max_len)

\* sample with top_p = 0.0 has met an eos at its last step, with no tie
NucleusZeroIsGreedyWitness ==
    /\ NucleusOfZero /\ req.temperature = 1 /\ req.max_len = MaxLen
    /\ \A pre \in DOMAIN oracle : UniqueMax(SoftmaxWeights(oracle[pre], 1))
    /\ Len(result) = MaxLen /\ result[MaxLen] = eos_idx /\ result[1] # eos_idx


\* C6: in every decoding step of every strategy, the mask the generator
\* builds for a target of length n, as the attention layer applies it,
\* lets the query position i attend to the key position j if and only if
\* j <= i.
CausalMaskAsApplied ==
    mask_size >= 1 =>
        LET a == ApplyMask(mask, mask_size, 1, mask_size)
        IN /\ a.status = "ok"
           /\ \A i, j \in 0..(mask_size - 1) : a.attend[i][j] <=> (j <= i)


(***************************************************************************)
(* Properties of the tokenizer                                             *)
(***************************************************************************)

\* runs of whitespace collapsed to one space, the ends trimmed
NormalizeWhitespace(text) == Join(Split(text), <<" ">>)

\* text is made of whitespace and of characters of the training corpus
SeenInTraining(text) ==
    \A i \in 1..Len(text) : IsSpace(text[i]) \/ <<text[i]>> \in CorpusChars(word_freqs)

\* C4: for a tokenizer trained on any corpus and a text made only of
\* characters that occur in the corpus, decode(encode(text)) is the text
\* up to whitespace normalization.
RoundTrip ==
    (/\ tok_op.op = "decode" /\ tok_op.src # NoText /\ tok_op.skip_special_tokens
     /\ vocab # <<>> /\ SeenInTraining(tok_op.src))
        => tok_op.out = NormalizeWhitespace(tok_op.src)

\* C5: after train on any corpus, vocab and inverse_vocab are inverse
\* bijections: they have the same size, the ids are exactly
\* 0 .. len(vocab)-1, and inverse_vocab[vocab[t]] = t for every token t.
VocabBijection ==
    tok_op.op = "train" =>
        /\ Cardinality(DOMAIN vocab) = Cardinality(DOMAIN inverse_vocab)
        /\ DOMAIN inverse_vocab = 0..(Cardinality(DOMAIN vocab) - 1)
        /\ \A t \in DOMAIN vocab :
              vocab[t] \in DOMAIN inverse_vocab /\ inverse_vocab[vocab[t]] = t
        /\ \A i \in DOMAIN inverse_vocab :
              inverse_vocab[i] \in DOMAIN vocab /\ vocab[inverse_vocab[i]] = i

\* a train that has made merges, on a tokenizer encode was called on before
VocabBijectionWitness ==
    /\ tok_op.op = "train"
    /\ Len(merges) >= 2
    /\ splits # <<>>
    /\ \E i \in 1..Len(merges) : Concat(merges[i]) \in DOMAIN vocab

\* C10: decode called with a list that holds an id outside the vocabulary
\* fails with an invalid-token-id error and returns no string.
DecodeRejectsUnknownIds ==
    (/\ tok_op.op = "decode"
     /\ \E i \in 1..Len(tok_op.ids) : tok_op.ids[i] \notin DOMAIN inverse_vocab)
        => tok_op.status = "error"

\* C11: encode raises on no text, and every symbol of the per-word merge
\* that the vocabulary lacks gives exactly one unknown-token id at its
\* position, whatever the special-token list of the tokenizer is.
UnknownsMapped ==
    tok_op.op = "encode" =>
        LET words == Split(Strip(LowerStr(tok_op.text)))
            syms == Concat([k \in 1..Len(words) |-> splits[words[k]]])
            pre == IF tok_op.add_special_tokens /\ BOS \in DOMAIN vocab THEN 1 ELSE 0
            post == IF tok_op.add_special_tokens /\ EOS \in DOMAIN vocab THEN 1 ELSE 0
            body == SubSeq(tok_op.ids, pre + 1, Len(tok_op.ids) - post)
        IN /\ tok_op.status = "ok"
           /\ Len(body) = Len(syms)
           /\ \A i \in 1..Len(syms) :
                IF syms[i] \in DOMAIN vocab THEN body[i] = vocab[syms[i]]
                ELSE UNK \in DOMAIN vocab /\ body[i] = vocab[UNK]

\* C12: for every trained tokenizer t, load(save(t)) has the vocab_size,
\* the special tokens, the merges and the vocab of t, and encode and decode
\* return on it what they return on t.
LoadReproduces ==
    (tok_op.op = "save" /\ vocab # <<>>) =>
        LET l == TokenizerLoad(tok_file)
            t == l.partial
        IN /\ l.status = "ok"
           /\ t.vocab_size = vocab_size
           /\ t.special_tokens = special_tokens
           /\ t.merges = merges
           /\ t.vocab = vocab
           /\ \A text \in FileTexts :
                /\ Encode(text, TRUE, t.splits, t.merges, t.vocab).ids
                        = Encode(text, TRUE, splits, merges, vocab).ids
                /\ Decode(Encode(text, TRUE, splits, merges, vocab).ids, TRUE,
                          t.inverse_vocab, t.special_tokens)
                        = Decode(Encode(text, TRUE, splits, merges, vocab).ids, TRUE,
                                 inverse_vocab, special_tokens)

\* C15: for any texts a and b, encode(a + ' ' + b) without special tokens
\* is encode(a) followed by encode(b), and with them the ids of encode(a)
\* without its eos are a prefix of encode(a + ' ' + b), whatever was encoded
\* or trained before.
EncodeCompositional ==
    tok_op.op = "encode" =>
        \A b \in FileTexts :
            LET whole == Encode(tok_op.text \o <<" ">> \o b, tok_op.add_special_tokens,
                                splits, merges, vocab).ids
                second == Encode(b, FALSE, splits, merges, vocab).ids
                eos == IF EOS \in DOMAIN vocab THEN 1 ELSE 0
            IN IF tok_op.add_special_tokens
               THEN IsPrefix(SubSeq(tok_op.ids, 1, Len(tok_op.ids) - eos), whole)
               ELSE whole = tok_op.ids \o second

\* an encode of two words with bos and eos, on a tokenizer that has merges
\* and whose cache holds a word split by the merges of an earlier training
EncodeCompositionalWitness ==
    /\ tok_op.op = "encode" /\ tok_op.add_special_tokens
    /\ Len(Split(tok_op.text)) = 2
    /\ Len(merges) >= 2
    /\ \E w \in DOMAIN splits : splits[w] # ApplyMerges(merges, GetSplits(w))

\* the number of places where pair stands in the symbols syms
Occurrences(pair, syms) ==
    Cardinality({i \in 1..(Len(syms) - 1) : <<syms[i], syms[i + 1]>> = pair})

\* the aggregate frequency of pair: its occurrences in every word, weighted
\* by the frequency of the word
RECURSIVE AggregateFrequency(_, _, _, _)
AggregateFrequency(pair, sp, wf, k) ==
    IF k > Len(sp) THEN 0
    ELSE Occurrences(pair, sp[k].syms) * CounterGet(wf, sp[k].word)
         + AggregateFrequency(pair, sp, wf, k + 1)

\* the adjacent pairs in the order of a scan of the words in insertion
\* order, each word from left to right
RECURSIVE ScanPairs(_, _)
ScanPairs(sp, k) ==
    IF k > Len(sp) THEN <<>>
    ELSE [i \in 1..(Len(sp[k].syms) - 1) |-> <<sp[k].syms[i], sp[k].syms[i + 1]>>]
         \o ScanPairs(sp, k + 1)

FirstAt(seq, x) == CHOOSE i \in 1..Len(seq) : seq[i] = x /\ \A j \in 1..(i - 1) : seq[j] # x

\* C19: training stops adding merges once the vocabulary has reached
\* vocab_size or no adjacent pair has an aggregate frequency above one: no
\* merge is recorded for a pair that occurs once, and at the end one of the
\* two conditions holds.
MergesOccurTwice ==
    tok_op.op = "train" =>
        LET sp0 == InitialSplits(word_freqs)
            before == SplitsBefore(sp0, merges)
            last == IF merges = <<>> THEN sp0
                    ELSE MergePair(merges[Len(merges)], before[Len(merges)])
        IN /\ \A i \in 1..Len(merges) :
                AggregateFrequency(merges[i], before[i], word_freqs, 1) > 1
           /\ \/ Cardinality(DOMAIN vocab) >= vocab_size
              \/ \A q \in Range(ScanPairs(last, 1)) :
                    AggregateFrequency(q, last, word_freqs, 1) <= 1

\* C20: at every iteration of the training the merged pair has the largest
\* aggregate frequency of all adjacent pairs, and of the pairs that have it
\* it is the one a scan of the words in insertion order, each from left to
\* right, meets first; the merge table is thereby a function of the corpus.
MergesMaximalFirst ==
    tok_op.op = "train" =>
        LET before == SplitsBefore(InitialSplits(word_freqs), merges)
        IN \A i \in 1..Len(merges) :
            LET scan == ScanPairs(before[i], 1)
                freq(q) == AggregateFrequency(q, before[i], word_freqs, 1)
            IN /\ \E j \in 1..Len(scan) : scan[j] = merges[i]
               /\ \A q \in Range(scan) :
                    /\ freq(q) <= freq(merges[i])
                    /\ (q # merges[i] /\ freq(q) = freq(merges[i]))
                          => FirstAt(scan, merges[i]) < FirstAt(scan, q)

\* a training whose first merge was chosen among several pairs of the
\* largest frequency, and which made more merges after it
MergesMaximalFirstWitness ==
    /\ tok_op.op = "train"
    /\ Len(merges) >= 2
    /\ \E q \in Range(ScanPairs(InitialSplits(word_freqs), 1)) :
        /\ q # merges[1]
        /\ AggregateFrequency(q, InitialSplits(word_freqs), word_freqs, 1)
             = AggregateFrequency(merges[1], InitialSplits(word_freqs), word_freqs, 1)


(***************************************************************************)
(* Properties of the context manager and of the engine                     *)
(***************************************************************************)

\* len(tokenizer.encode(text, add_special_tokens=False))
TokenCount(text) == Len(Encode(text, FALSE, splits, merges, vocab).ids)

\* C7: for every history, current_input and max_context_tokens, the string
\* get_context returns has a tokenized length of at most
\* max_context_tokens plus the token count of current_input.
ContextBudget ==
    ctx_op.op = "get_context" =>
        TokenCount(ctx_op.out) <= ctx_op.max_context_tokens + TokenCount(ctx_op.current_input)

\* the last n entries of seq, in their order
LastEntries(seq, n) ==
    LET m == IF Len(seq) < n THEN Len(seq) ELSE n
    IN [i \in 1..m |-> seq[Len(seq) - m + i]]

\* C16: after any sequence of add_turn, set_history and clear the history
\* holds at most max_context_length turns, the most recently supplied ones
\* in their order: add_turn leaves the last max_context_length turns of the
\* history followed by the new turn, set_history the last
\* max_context_length entries of its list, clear none, and the other calls
\* leave the history as it is.
HistoryBounded ==
    /\ [](Len(conversation_history) <= max_context_length)
    /\ [][/\ ctx_op'.op = "add_turn" =>
                conversation_history' =
                    LastEntries(Append(conversation_history, ctx_op'.turn), max_context_length)
          /\ ctx_op'.op = "set_history" =>
                conversation_history' = LastEntries(ctx_op'.history, max_context_length)
          /\ ctx_op'.op = "clear" => conversation_history' = <<>>
          /\ ctx_op'.op \in {"get_context", "get_history"} =>
                conversation_history' = conversation_history]_vars

\* set_history was given a list of three different turns on a manager that
\* keeps two
HistoryBoundedWitness ==
    /\ ctx_op.op = "set_history"
    /\ Len(ctx_op.history) = 3 /\ ctx_op.history[1] # ctx_op.history[3]
    /\ max_context_length = 2
    /\ Len(conversation_history) = 2


\* C9: a generation request with temperature <= 0, or with top_p or top_k
\* outside its valid range, is rejected before any computation begins: the
\* encoder and the decoder are not run, no turn is added to the history,
\* and the request does not return a response.
InvalidRequestRejected ==
    (req.via = "engine" /\ ~ValidRequest(req)) =>
        /\ encoder_runs = 0
        /\ decoder_runs = 0
        /\ conversation_history = req.history0
        /\ pc \notin {"done", "returned"}


(***************************************************************************)
(* Properties of the model, of the loads and of the server                 *)
(***************************************************************************)

\* C13: load(save(m)) gives a model with the same configuration and the
\* same parameters as m, for every model m that was constructed: the save
\* succeeds, and a load of the checkpoint it wrote succeeds and returns a
\* model whose hyperparameters and state_dict are those of m.
SaveLoadIdentity ==
    model # NoModel =>
        /\ model_op.op = "save" => model_op.status = "ok"
        /\ (/\ model_op.op = "load"
            /\ ModelSave(model).status = "ok"
            /\ checkpoint = ModelSave(model).partial)
           => /\ model_op.status = "ok"
              /\ model_op.out.config = model.config
              /\ model_op.out.state_dict = model.state_dict

\* C14: a d_model that num_heads does not divide is rejected when the model
\* is constructed, whatever the numbers of layers: the construction raises
\* and no model is returned.
IndivisibleRejected ==
    (/\ model_op.op = "construct"
     /\ model_op.config.num_heads # 0
     /\ model_op.config.d_model % model_op.config.num_heads # 0)
    => (model_op.status = "error" /\ model_op.out = NoModel)

\* the tokenizer file cannot be loaded: it is missing, is not JSON, or
\* lacks one of the four keys load reads
TokFileFails(f) ==
    \/ f.kind # "json"
    \/ ~({"vocab_size", "special_tokens", "merges", "vocab"} \subseteq DOMAIN f.data)

\* the tensors a model of the hyperparameters of the record ck has, with
\* their shapes
ShapesOf(ck) ==
    LET c == ModelConfig(ck.src_vocab_size, ck.tgt_vocab_size, ck.d_model,
                         ck.config.num_encoder_layers, ck.config.num_decoder_layers,
                         ck.config.num_heads, ck.config.d_ff, DefaultModelMaxLen)
    IN [name \in StateDictNames(c) |-> TensorShape(c, name)]

\* the checkpoint cannot be loaded: it is missing, is not a checkpoint,
\* lacks a key, names hyperparameters no model can be built with, or holds
\* tensors that are not those of the model its hyperparameters describe
CheckpointFails(f) ==
    \/ f.kind # "json"
    \/ ~({"config", "src_vocab_size", "tgt_vocab_size", "d_model", "model_state_dict"}
            \subseteq DOMAIN f.data)
    \/ f.data.d_model % 2 = 1
    \/ (/\ f.data.config.num_encoder_layers + f.data.config.num_decoder_layers >= 1
        /\ f.data.d_model % f.data.config.num_heads # 0)
    \/ ShapesOf(f.data) # [name \in DOMAIN f.data.model_state_dict |->
                              f.data.model_state_dict[name].shape]

\* t is the tokenizer of the file f, with every attribute set
InitialisedTokenizer(t, f) ==
    /\ t.cls = "BPETokenizer"
    /\ t.vocab_size = f.data.vocab_size
    /\ t.special_tokens = SpecialTokensOf(f.data.special_tokens)
    /\ t.merges = f.data.merges
    /\ t.vocab = f.data.vocab
    /\ DOMAIN t.inverse_vocab = {t.vocab[tk] : tk \in DOMAIN t.vocab}
    /\ \A id \in DOMAIN t.inverse_vocab : t.vocab[t.inverse_vocab[id]] = id
    /\ t.word_freqs = <<>> /\ t.splits = <<>>

\* m is the model of the checkpoint f, in evaluation mode
InitialisedModel(m, f) ==
    /\ m.cls = "TransformerModel"
    /\ m.state_dict = f.data.model_state_dict
    /\ m.config.d_model = f.data.d_model
    /\ m.config.num_heads = f.data.config.num_heads
    /\ m.config.num_encoder_layers = f.data.config.num_encoder_layers
    /\ m.config.num_decoder_layers = f.data.config.num_decoder_layers
    /\ ~m.training

\* e is an engine with its four parts
InitialisedEngine(e, tokfile, ckpt) ==
    /\ e.cls = "InferenceEngine"
    /\ InitialisedTokenizer(e.tokenizer, tokfile)
    /\ InitialisedModel(e.model, ckpt)
    /\ e.generator.cls = "TextGenerator"
    /\ e.generator.max_len = DefaultEngineMaxLen
    /\ e.context_manager = ContextManagerObject

\* C17: a load of a tokenizer, of a model or of an engine either returns a
\* fully initialised object or ends in an error and yields no object: a
\* missing file, a malformed record or a checkpoint that does not match the
\* model reconstructed from it makes the load fail, and after a failing
\* start-up the server's inference_engine is unset, never a partly built
\* engine.
LoadAllOrNothing ==
    /\ tok_op.op = "load" =>
        IF TokFileFails(tok_file)
        THEN tok_op.status = "error" /\ tok_op.obj = NoTokenizer
        ELSE tok_op.status = "ok" /\ InitialisedTokenizer(tok_op.obj, tok_file)
    /\ model_op.op = "load" =>
        IF CheckpointFails(checkpoint)
        THEN model_op.status = "error" /\ model_op.out = NoModel
        ELSE model_op.status = "ok" /\ InitialisedModel(model_op.out, checkpoint)
    /\ model_op.op = "lifespan" =>
        IF TokFileFails(tok_file) \/ CheckpointFails(checkpoint)
        THEN inference_engine = NoObject
        ELSE InitialisedEngine(inference_engine, tok_file, checkpoint)
    /\ inference_engine # NoObject =>
        InitialisedEngine(inference_engine, tok_file, checkpoint)

\* the server started on a good tokenizer file and a checkpoint whose
\* state_dict is that of a model of another width: the tokenizer was
\* loaded, the load of the model raised, and the engine is unset
LoadAllOrNothingWitness ==
    /\ model_op.op = "lifespan" /\ model_op.status = "error"
    /\ ~TokFileFails(tok_file)
    /\ checkpoint.kind = "json" /\ "model_state_dict" \in DOMAIN checkpoint.data
    /\ CheckpointFails(checkpoint)
    /\ inference_engine = NoObject


(***************************************************************************)
(* Properties of concurrent calls                                          *)
(***************************************************************************)

\* beam_search run alone, from the locals t, on the model the oracle has
\* revealed: the sequences it may return (the order of equal scores is the
\* sort's), none where its path leaves the revealed prefixes
RECURSIVE BeamAlone(_, _)
BeamAlone(o, t) ==
    IF t.pc # "running" THEN {t.result}
    ELSE IF ~(OpenBeams(t.beams) \subseteq DOMAIN o) THEN {}
    ELSE UNION { BeamAlone(o, n) :
                 n \in BeamIter(t, [pre \in OpenBeams(t.beams) |-> o[pre]]) }

\* the sequences the request r may return when no other call is made
RunAlone(o, r) ==
    IF r.method = "greedy" THEN {GreedyDecode(o, r.max_len)}
    ELSE BeamAlone(o, StartThread(r))

\* C18: when two requests run concurrently on one TextGenerator, in every
\* interleaving of the iterations of their loops each request, greedy or
\* beam search, returns a sequence it returns when it is run alone on the
\* same model.
ConcurrentAsAlone ==
    \A i \in ThreadIds :
        threads[i].pc = "done" => threads[i].result \in RunAlone(oracle, threads[i].req)

\* a beam search of two beams and a greedy decode have both returned after
\* two iterations each, every one of them having had an iteration of the
\* other between two of its own
ConcurrentAsAloneWitness ==
    \E i \in ThreadIds, j \in ThreadIds :
        /\ i # j
        /\ threads[i].pc = "done" /\ threads[i].req.method = "beam"
        /\ threads[i].req.beam_size = 2 /\ threads[i].steps = 2
        /\ threads[i].interleaved
        /\ threads[j].pc = "done" /\ threads[j].req.method = "greedy"
        /\ threads[j].steps = 2 /\ threads[j].interleaved

(***************************************************************************)
(* Further properties of the generator                                     *)
(***************************************************************************)

\* the tokens of the shortest prefix of the descending order ord of the
\* probabilities p whose cumulative probability, the running sum of
\* generator.py:150 added in acc, is greater than top_p
ShortestPrefix(ord, p, top_p10, acc) ==
    LET n == Cardinality(Tokens)
        top_p == TopP32(top_p10)
        exceeds(k) == CumSum(p, ord, k, acc) > top_p
        k == CHOOSE c \in 1..n : exceeds(c) /\ \A j \in 1..(c - 1) : ~exceeds(j)
    IN {ord[i] : i \in 1..k}

\* for the probabilities p that enter the nucleus filter and either
\* accumulator of cumsum: the sets of tokens the filter may leave with a
\* probability above zero are the shortest prefixes of the descending
\* orders of p, and each holds a token of the largest probability
NucleusIsShortestPrefix(p, top_p10) ==
    \A acc \in Accumulators :
        /\ { {t \in Tokens : p2[t] > 0} : p2 \in NucleusFiltered(p, top_p10, acc) }
             = { ShortestPrefix(ord, p, top_p10, acc) :
                   ord \in TopKOrders(p, Tokens, Cardinality(Tokens)) }
        /\ \A p2 \in NucleusFiltered(p, top_p10, acc) :
             \E t \in Tokens : p2[t] > 0 /\ p[t] = MaxOf(p, Tokens)

\* the sample calls that filter by top_p < 1 and do not raise
NucleusParams == {sp \in SampleParams : sp[3] < 10 /\ ~SampleRaises(sp[1], sp[2])}

\* NucleusIsShortestPrefix and the tokens of the shortest prefixes over the
\* logits and the parameters of the calls, computed once
NucleusTable ==
    { <<lg, sp,
        \A p \in TopKFiltered(Softmax(lg, sp[1]), sp[2]) :
            NucleusIsShortestPrefix(p, sp[3]),
        UNION { { ShortestPrefix(ord, p, sp[3], acc) :
                    ord \in TopKOrders(p, Tokens, Cardinality(Tokens)),
                    acc \in Accumulators } :
                p \in TopKFiltered(Softmax(lg, sp[1]), sp[2]) }>> :
      lg \in LogitSet, sp \in NucleusParams }

NucleusEntry(lg, r) ==
    CHOOSE e \in NucleusTable : e[1] = lg /\ e[2] = <<r.temperature, r.top_k, r.top_p10>>

\* sample has chosen a token in a call with top_p < 1
SampledUnderNucleus ==
    /\ req.method = "sample" /\ pc \in {"running", "done"}
    /\ Len(tgt) >= 2 /\ req.top_p10 < 10

\* C21: when top_p < 1, the tokens left with a probability above zero after
\* the nucleus filter are exactly the shortest prefix of the descending
\* order of the probabilities whose cumulative probability, the running
\* sum the filter computes in float32, is greater than top_p; the prefix holds
\* the token of the highest probability, and the token sample appends is in
\* it.
NucleusPrefix ==
    SampledUnderNucleus =>
        LET e == NucleusEntry(oracle[SubSeq(tgt, 1, Len(tgt) - 1)], req)
        IN /\ e[3]
           /\ \E S \in e[4] : Last(tgt) \in S

\* sample, with top_p = 0.9 and temperature -1, appended one of the two
\* least probable tokens on logits whose probabilities are 0.2, 0.2, 0.1,
\* 0.2, 0.2, 0.1: the running sum of the first five, 0.90000004 with
\* either accumulator, is greater than top_p, so the filter keeps five
\* tokens and removes the other of the two
NucleusPrefixWitness ==
    /\ SampledUnderNucleus /\ req.top_p10 = 9 /\ req.top_k = NoTopK /\ req.temperature = -1
    /\ oracle[SubSeq(tgt, 1, Len(tgt) - 1)] = Vec(<<0, 0, 1, 0, 0, 1>>)
    /\ Last(tgt) \in {2, 5}
    /\ \A S \in NucleusEntry(Vec(<<0, 0, 1, 0, 0, 1>>), req)[4] : Cardinality(S) = 5

\* the beams of bs that end in eos, in their order
RECURSIVE EosBeams(_)
EosBeams(bs) ==
    IF bs = <<>> THEN <<>>
    ELSE IF EndsInEos(Head(bs).seq) THEN <<Head(bs)>> \o EosBeams(Tail(bs))
    ELSE EosBeams(Tail(bs))

BeamCall == req.method = "beam" /\ pc \in {"running", "done"}

\* C22: beam_search keeps at most beam_size beams after every step; a beam
\* that ends in eos is recorded in the finished set, with the sequence and
\* the score (hence the penalised score score / len^penalty) it has at that
\* moment, and a recorded entry never changes; the sequence returned is
\* that of a candidate of the finished set and the final beams together
\* than which no other has a greater penalised score.
BeamKeepsBest ==
    /\ [](BeamCall =>
            /\ Len(beams) <= req.beam_size
            /\ \A i \in 1..Len(finished) : EndsInEos(finished[i].seq)
            /\ pc = "done" =>
                \E i \in 1..Len(finished \o beams) :
                    /\ result = Tail((finished \o beams)[i].seq)
                    /\ \A j \in 1..Len(finished \o beams) :
                        ~PenalisedGreater((finished \o beams)[j], (finished \o beams)[i],
                                          req.length_penalty))
    /\ [][(req.method = "beam" /\ pc = "running" /\ pc' \in {"running", "done"})
            => finished' = finished \o EosBeams(beams)]_vars

\* beam search with two beams has returned a finished sequence, eos alone,
\* recorded in the second step, whose penalised score is greater than that
\* of both of the last beams
BeamKeepsBestWitness ==
    /\ BeamCall /\ pc = "done" /\ req.beam_size = 2 /\ steps = 2
    /\ Len(finished) = 1 /\ Len(beams) = 2
    /\ result = <<eos_idx>>
    /\ \A j \in 1..2 : PenalisedGreater(finished[1], beams[j], req.length_penalty)

\* eos occurs in seq at its last position only
EosOnlyLast(seq) == \A i \in 1..(Len(seq) - 1) : seq[i] # eos_idx

\* the token at position i of the sequence seq (bos first) is one the
\* strategy of the request r may choose on the logits the model gave for
\* the tokens before it
ChosenAt(seq, i, r) ==
    LET lg == oracle[SubSeq(seq, 1, i - 1)]
    IN CASE r.method = "greedy" -> seq[i] = GreedyNext(lg)
         [] r.method = "sample" ->
                seq[i] \in SupportOf(lg, r.temperature, r.top_k, r.top_p10)
         [] OTHER ->
                \E ord \in TopKOrders(LogSoftmax(lg), Tokens, r.beam_size) :
                    \E k \in 1..r.beam_size : seq[i] = ord[k]

\* C23: for every strategy the returned sequence is the tokens chosen after
\* the initial bos, in the order they were generated; no token is appended
\* to a sequence that ends in eos, so eos occurs only as the last element
\* of what is returned; and a returned sequence shorter than max_len ends
\* in eos.
StopsOnlyOnEosOrMaxLen ==
    /\ (pc \in {"running", "done"} /\ req.method \in {"greedy", "sample"}) =>
            (tgt[1] = bos_idx /\ EosOnlyLast(tgt))
    /\ (pc \in {"running", "done"} /\ req.method = "beam") =>
            \A i \in 1..Len(finished \o beams) :
                /\ (finished \o beams)[i].seq[1] = bos_idx
                /\ EosOnlyLast((finished \o beams)[i].seq)
    /\ Returned =>
        /\ EosOnlyLast(result)
        /\ Len(result) < req.max_len => (result # <<>> /\ Last(result) = eos_idx)
        /\ \E seq \in IF req.method = "beam"
                      THEN {(finished \o beams)[i].seq : i \in 1..Len(finished \o beams)}
                      ELSE {tgt} :
            /\ seq = <<bos_idx>> \o result
            /\ \A i \in 2..Len(seq) : ChosenAt(seq, i, req)

\* sample, called with max_len 2, has returned after one step: the token it
\* drew was eos, on logits where other tokens could be drawn
StopsOnlyOnEosOrMaxLenWitness ==
    /\ Returned /\ req.method = "sample" /\ req.max_len = 2
    /\ result = <<eos_idx>>
    /\ Cardinality(SupportOf(oracle[<<bos_idx>>], req.temperature, req.top_k,
                             req.top_p10)) > 1

(***************************************************************************)
(* Further properties of the context manager and of the engine             *)
(***************************************************************************)

\* the tokens of current_input and of the k most recent turns of hist
TokensWithTurns(hist, current_input, k) ==
    TokenCount(current_input)
    + SumOver([i \in 1..Len(hist) |-> TokenCount(TurnText(hist[i]))],
              (Len(hist) - k + 1)..Len(hist))

\* the text made of the k most recent turns of hist, oldest first, and of
\* the prompt for current_input
ContextOfLast(hist, current_input, k) ==
    IF k = 0 THEN Prompt(current_input)
    ELSE Join([i \in 1..k |-> TurnText(hist[Len(hist) - k + i])], <<"\n", "\n">>)
         \o <<"\n", "\n">> \o Prompt(current_input)

\* C24: the turns get_context includes are a block of the most recent
\* turns, oldest first: the k most recent ones, where every one of them fits
\* the budget together with the input and the more recent turns, and the
\* next older turn, if there is one, does not; no turn older than that one
\* is included even if it would fit.  The result ends with the prompt
\* "User: <current_input>" and the open "Assistant:" cue.
ContextIsRecentBlock ==
    ctx_op.op = "get_context" =>
        \E k \in 0..Len(conversation_history) :
            /\ \A j \in 1..k :
                TokensWithTurns(conversation_history, ctx_op.current_input, j)
                    <= ctx_op.max_context_tokens
            /\ k < Len(conversation_history) =>
                TokensWithTurns(conversation_history, ctx_op.current_input, k + 1)
                    > ctx_op.max_context_tokens
            /\ ctx_op.out = ContextOfLast(conversation_history, ctx_op.current_input, k)

\* get_context returned the prompt alone on a history of two turns: the
\* most recent turn did not fit, and the older one, which would have
\* fitted, was left out
ContextIsRecentBlockWitness ==
    /\ ctx_op.op = "get_context" /\ Len(conversation_history) = 2
    /\ ctx_op.out = Prompt(ctx_op.current_input)
    /\ TokenCount(ctx_op.current_input) + TokenCount(TurnText(conversation_history[2]))
            > ctx_op.max_context_tokens
    /\ TokenCount(ctx_op.current_input) + TokenCount(TurnText(conversation_history[1]))
            <= ctx_op.max_context_tokens

(***************************************************************************)
(* Further properties of the tokenizer                                     *)
(***************************************************************************)

\* C25: encode and decode leave the trained state as it is: a call of
\* either changes neither the merge table, nor vocab, nor inverse_vocab,
\* nor the special-token list, nor vocab_size, so after any sequence of
\* such calls they are what training or loading left.
EncodeDecodeFrame ==
    [][tok_op'.op \in {"encode", "decode"} =>
            /\ merges' = merges
            /\ vocab' = vocab
            /\ inverse_vocab' = inverse_vocab
            /\ special_tokens' = special_tokens
            /\ vocab_size' = vocab_size]_vars

\* a decode has followed an encode that filled the cache of a trained
\* tokenizer, whose merge table and vocab are those of its training
EncodeDecodeFrameWitness ==
    /\ tok_op.op = "decode" /\ tok_op.ids # <<>>
    /\ splits # <<>>
    /\ merges # <<>>
    /\ merges = Train(<< <<"a", "b", " ", "b", "a">> >>, vocab_size, special_tokens).merges
    /\ vocab = Train(<< <<"a", "b", " ", "b", "a">> >>, vocab_size, special_tokens).vocab

\* C28: the cache of the per-word merges never changes a result: after any
\* sequence of train and encode calls, encode returns what a tokenizer with
\* the same merge table and vocab and an empty cache returns.
CacheIsTransparent ==
    tok_op.op = "encode" =>
        tok_op.ids = Encode(tok_op.text, tok_op.add_special_tokens, <<>>, merges, vocab).ids

(***************************************************************************)
(* Properties of the mask function, of the scheduler and of the executor   *)
(***************************************************************************)

\* C26: generate_mask returns a target mask of the shape [batch, n, n]
\* whose entry (b, i, j) is true exactly when j <= i and tgt[b][j] is not
\* the pad id, and a source mask, a source padding mask and a target
\* padding mask that are true exactly at the positions that do not hold
\* the pad id
MaskIsCausalAndPadding ==
    gm_op.op = "generate_mask" =>
        LET o == gm_op.out
            s == gm_op.src
            t == gm_op.tgt
            n == Len(t[1])
        IN /\ DOMAIN o.tgt_mask = 1..Len(t)
           /\ \A b \in 1..Len(t) :
                /\ DOMAIN o.tgt_mask[b] = 1..n
                /\ \A i \in 1..n :
                    /\ DOMAIN o.tgt_mask[b][i] = 1..n
                    /\ \A j \in 1..n :
                        o.tgt_mask[b][i][j] = (j <= i /\ t[b][j] # gm_op.pad_idx)
           /\ DOMAIN o.tgt_padding_mask = 1..Len(t)
           /\ \A b \in 1..Len(t) :
                /\ DOMAIN o.tgt_padding_mask[b] = 1..n
                /\ \A j \in 1..n : o.tgt_padding_mask[b][j] = (t[b][j] # gm_op.pad_idx)
           /\ DOMAIN o.src_mask = 1..Len(s)
           /\ o.src_padding_mask = o.src_mask
           /\ \A b \in 1..Len(s) :
                /\ DOMAIN o.src_mask[b] = 1..Len(s[b])
                /\ \A j \in 1..Len(s[b]) : o.src_mask[b][j] = (s[b][j] # gm_op.pad_idx)

\* a call on two rows with the pad id 1: in one row an entry on the
\* diagonal is true, an entry below the diagonal is false for its padding
\* and an entry above the diagonal is false over a token that is no padding
MaskIsCausalAndPaddingWitness ==
    /\ gm_op.op = "generate_mask"
    /\ gm_op.pad_idx = 1
    /\ Len(gm_op.tgt) = 2 /\ Len(gm_op.tgt[1]) = 2
    /\ \E b \in 1..2 :
        /\ gm_op.out.tgt_mask[b][2][2]
        /\ ~gm_op.out.tgt_mask[b][2][1]
        /\ ~gm_op.out.tgt_mask[3 - b][1][2] /\ gm_op.tgt[3 - b][2] # 1
    /\ \E b \in 1..2, j \in 1..2 : ~gm_op.out.src_mask[b][j]

\* C29: the stored events have pairwise distinct ids, and a delete_event
\* removes at most one event
EventIdsDistinct ==
    /\ \A i, j \in 1..Len(events) : i # j => events[i].id # events[j].id
    /\ sched_op.op = "delete_event" => sched_op.removed <= 1

\* a command starts with a blocked command, as is_safe compares them
StartsWithBlocked(command) ==
    \E i \in 1..Len(BlockedCommands) :
        IsPrefix(BlockedCommands[i], Strip(LowerStr(command)))

ContainsDangerousOp(command) ==
    \E i \in 1..Len(DangerousOps) : Contains(DangerousOps[i], command)

\* C30: an execute of a command that starts with a blocked command or
\* contains a dangerous operator finds it not safe, returns the failure
\* "Command blocked" and starts no process
BlockedNeverRuns ==
    (/\ cmd_op.op = "execute"
     /\ StartsWithBlocked(cmd_op.command) \/ ContainsDangerousOp(cmd_op.command))
    => /\ ~cmd_op.safe
       /\ ~cmd_op.ok
       /\ cmd_op.message = "Command blocked"
       /\ ~cmd_op.started

(***************************************************************************)
(* Further properties of the engine                                        *)
(***************************************************************************)

\* what generate returns: response.strip(), response being the decoded
\* result of the generator
ReturnedResponse ==
    Strip(Decode(result, TRUE, inverse_vocab, special_tokens).text)

\* C27: generate changes the conversation history only on a completed
\* turn.  While a call runs and after it has raised the history is the one
\* the call found; after it has returned the history is that one followed
\* by exactly one turn, of the raw input_text and the returned response,
\* when use_context is True, and that one unchanged when it is False;
\* clear_context leaves the history empty.
HistoryOnlyOnCompletedTurn ==
    /\ [](req.via = "engine" =>
            /\ pc # "returned" => conversation_history = req.history0
            /\ pc = "returned" =>
                conversation_history =
                    IF req.use_context
                    THEN Append(req.history0, [user |-> req.input_text,
                                               assistant |-> ReturnedResponse])
                    ELSE req.history0)
    /\ [][EngineClear => conversation_history' = <<>>]_vars

\* a generate with use_context=True has returned a response that is not
\* empty and has added its turn to a history that held a turn
HistoryOnlyOnCompletedTurnWitness ==
    /\ req.via = "engine" /\ pc = "returned" /\ req.use_context
    /\ Len(req.history0) = 1
    /\ Len(conversation_history) = 2
    /\ conversation_history[2].user = req.input_text
    /\ conversation_history[2].assistant # <<>>


====
